---------------------------- MODULE Spec2Model ----------------------------
(***************************************************************************)
(* Model of the analysis pipeline of daily_stock_analysis                  *)
(* (src/src/core/pipeline.py): the batch orchestrator                      *)
(* StockAnalysisPipeline.run with its worker pool, the market snapshot     *)
(* provider chain of screen_market_stocks, its filters, the cap of its     *)
(* candidate pool, the indicators and the score of a candidate, and the    *)
(* second stage with the buy/watch selection.                              *)
(*                                                                         *)
(* Twelve specifications share the module, each over its own variables:    *)
(*   SpecRun         run() and process_single_stock()                      *)
(*   SpecChain       the snapshot cache and the provider chain             *)
(*   SpecRace        threads running the screen at once on the one cache   *)
(*   SpecFilter      the base filter and the candidate filter              *)
(*   SpecCap         the cap of the candidate pool                         *)
(*   SpecIndicators  one call of _calculate_technical_indicators           *)
(*   SpecScore       one call of _calculate_full_score                     *)
(*   SpecRescore     repeated calls of _calculate_full_score               *)
(*   SpecSelect      the second stage loop and the buy/watch selection     *)
(*   SpecScenario    the worked example: scored, appended, recommended     *)
(*   SpecEndpoint    requests of get_market_recommendations on its cache   *)
(*   SpecFetch       fetch_and_save_stock_data and the store               *)
(***************************************************************************)
EXTENDS Integers, Sequences, FiniteSets, TLC

(***************************************************************************)
(* Bounds of the model.                                                    *)
(***************************************************************************)
\* largest symbol list handed to run()
MaxSymbols == 5
\* largest symbol list explored with collaborators that raise inside a task
MaxFaultSymbols == 2
\* largest symbol list explored with the single-stock push switched on
MaxPushSymbols == 3
\* largest max_workers explored
MaxWorkers == 2
\* market screens started in one behaviour of SpecChain
MaxScreens == 2
\* idle periods (of TickSeconds each) elapsing in one behaviour of SpecChain
MaxTicks == 2
\* threads running screen_market_stocks at the same time in SpecRace
MaxThreads == 2
\* most rows of one kind in the candidate pool of SpecCap
MaxPerKind == 151
\* largest candidate pool entering the second stage in SpecSelect
MaxPool == 6
\* calls of _calculate_full_score in one behaviour of SpecRescore
MaxCalls == 3
\* stocks scored before the row of the example in SpecScenario
MaxRivals == 5
\* largest pool of SpecSelect whose rows come in descending order of code
MaxDescending == 3
\* longest history in SpecIndicators (line 1190 asks for 60 days)
MaxBars == 60
\* requests the endpoint receives in one behaviour of SpecEndpoint
MaxRequests == 3
\* symbols of the store in SpecFetch
MaxCodes == 2
\* calls of fetch_and_save_stock_data in one behaviour of SpecFetch
MaxFetchCalls == 2

(***************************************************************************)
(* Program constants.                                                      *)
(***************************************************************************)
\* pipeline.py:624  if len(stock_codes) >= 5
PrefetchThreshold == 5

\* pipeline.py:635  analysis_delay = getattr(self.config, 'analysis_delay', 0)
DelayChoices == {0, 2}

\* pipeline.py:947  for attempt in range(3)
EmAttempts == 3
\* pipeline.py:950  _time.sleep(5 * attempt)
BackoffSeconds == 5
\* pipeline.py:940  _realtime_cache['ttl'], seconds (the cache object lives in
\* data_provider.akshare_fetcher; 300 is the default the design gives it)
CacheTtl == 300
\* pipeline.py:1252, 1268  buy_candidates[:5], watch_candidates[:5]
MaxCandidates == 150
MaxRecs == 5
\* pipeline.py:714  len(df) < 20
MinBars == 20
\* api/v1/endpoints/market.py:28  'ttl': 300 of the response cache, in seconds
ResponseTtl == 300
\* pipeline.py:1249  0.5 <= change_pct <= 5.0 and score >= 40 (change in 0.1 %)
BuyChangeLow == 5
BuyChangeHigh == 50
BuyMinScore == 40
\* pipeline.py:1265  -2 <= change_pct <= 3 and score >= 30 (change in 0.1 %)
WatchChangeLow == -20
WatchChangeHigh == 30
WatchMinScore == 30

\* the wall clock when the model starts, and the length of an idle period
StartClock == 1000
TickSeconds == 200

\* the columns of the canonical snapshot that not every provider supplies:
\* 量比 and 60日涨跌幅
OptionalColumns == {"volume_ratio", "change_60d"}

\* the kinds of rows of the candidate pool: 量比 (where the column carries
\* values) and 涨跌幅, both in tenths; every kind passes the candidate filter
\* (change in [-2, 7], 量比 >= 1.2), the first two have the same quick score
KindRows ==
    << [volume_ratio |-> 12, change_pct |-> 70],
       [volume_ratio |-> 20, change_pct |-> 22],
       [volume_ratio |-> 30, change_pct |-> -20] >>
RowKinds == 1..Len(KindRows)

Tasks == 1..MaxSymbols
Threads == 1..MaxThreads

(***************************************************************************)
(* State of run().                                                         *)
(***************************************************************************)
VARIABLES
    stock_codes,          \* number of entries of the symbol list (one task each)
    max_workers,          \* self.max_workers
    dry_run,              \* argument dry_run
    send_notification,    \* argument send_notification
    single_stock_notify,  \* config.single_stock_notify
    analysis_delay,       \* config.analysis_delay
    task_faults,          \* environment: collaborators called inside a task may raise
    run_pc,               \* position of run()
    prefetch_calls,       \* calls of fetcher_manager.prefetch_realtime_quotes
    submitted,            \* entries of stock_codes already handed to executor.submit
    task,                 \* per entry: state of its future, its result, the stage that raised
    execs,                \* per entry: number of executions of process_single_stock
    folds,                \* per entry: number of times the collector took its future
    results,              \* the list `results`, as the multiset entry -> occurrences
    idx,                  \* number of futures as_completed has yielded so far
    collector,            \* "wait" (in as_completed) or "sleep" (in time.sleep)
    delays,               \* number of time.sleep(analysis_delay) calls made
    raised_at,            \* the step whose exception left run(), or "none"
    market_screens,       \* calls of screen_market_stocks made by run()
    summary_calls         \* calls of _send_notifications made by run()

(***************************************************************************)
(* State of the snapshot cache and of the provider chain of                *)
(* screen_market_stocks (first stage).                                     *)
(***************************************************************************)
VARIABLES
    realtime_cache,       \* _realtime_cache: [data, timestamp, ttl]
    clock,                \* wall clock, seconds
    ticks,                \* number of idle periods elapsed between screens
    screens,              \* screens started so far
    chain_pc,             \* position of screen_market_stocks in its first stage
    current_time,         \* the local current_time read at line 936
    df,                   \* the local df
    attempt,              \* loop variable of the primary provider's retry loop
    calls,                \* provider calls of the current screen, in order
    screen_result,        \* what the last screen returned: "none", "empty", "screened"
    screen_failed,        \* an exception was raised inside the current or last screen
    converted,            \* frames whose columns lines 1118-1125 have reassigned in place
    df_columns,           \* which of the optional columns the local df has
    cache_columns         \* which of the optional columns the cached frame has

(***************************************************************************)
(* State of the second stage and of the buy/watch selection of             *)
(* screen_market_stocks.                                                   *)
(***************************************************************************)
VARIABLES
    pool_size,            \* len(candidates_df)
    paired_codes,         \* input: whether rows of the snapshot share codes two by two
    codes_descending,     \* input: whether the rows come in descending order of code
    skipped,              \* positions in candidates_df of the rows the loop skipped
    sel_pc,               \* "scoring" (loop of line 1181) or "returned"
    cand_idx,             \* rows of candidates_df already iterated
    scored_stocks,        \* the local list scored_stocks
    buy,                  \* returned 'buy' list
    watch                 \* returned 'watch' list

(***************************************************************************)
(* State of threads that run screen_market_stocks at the same time on the  *)
(* module-level _realtime_cache (lines 936-957), one screen per thread.    *)
(***************************************************************************)
VARIABLES
    race_pc,              \* per thread: the line it is about to execute, or how it ended
    race_now,             \* per thread: the local current_time read at line 936
    race_seen,            \* per thread: the timestamp it read from the cache at line 940
    race_df,              \* per thread: the local df
    race_pairs            \* <<payload, timestamp>> of every snapshot a refresh set out to store

(***************************************************************************)
(* State of the candidate pool cap of screen_market_stocks (lines          *)
(* 1161-1171).                                                             *)
(***************************************************************************)
VARIABLES
    volume_column,        \* the 量比 column of candidates_df: "absent", "signal", "zero"
    candidates,           \* candidates_df after the candidate filter: rows of each kind
    cap_pc,               \* "filtered", "stage2" (at line 1173) or "returned" (line 1163)
    stage2_rows           \* candidates_df at line 1173: rows of each kind

(***************************************************************************)
(* State of the base filter and of the candidate filter of                 *)
(* screen_market_stocks (lines 1127-1159).                                 *)
(***************************************************************************)
VARIABLES
    snapshot_rows,        \* the rows of df, after the numeric conversion
    snapshot_columns,     \* which of 量比, 总市值, 市盈率-动态 df has as columns
    filter_pc,            \* "snapshot", "base" (line 1136), "candidates" (line 1158), "off"
    df_filtered,          \* rows of df_filtered, by their position in df
    candidates_df         \* rows of candidates_df, by their position in df

(***************************************************************************)
(* State of one scored row (lines 1199-1226, 1323-1337) and of the calls   *)
(* of _calculate_full_score (lines 797-907).                               *)
(***************************************************************************)
VARIABLES
    score_input,          \* the row of candidates_df and its indicators dict
    score_args,           \* the arguments of the call in progress or last made
    score_pc,             \* "row", "called", "returned", "appended", "recommended", "off"
    score_result,         \* the value the last call returned, in tenths of a point
    score_calls,          \* calls made so far
    score_log,            \* <<arguments, cache, value returned>> of every call made
    buy_recs              \* buy_recs of the screen that scored the row: [code, reason]

(***************************************************************************)
(* State of one call of _calculate_technical_indicators (lines 701-795).   *)
(***************************************************************************)
VARIABLES
    kline,                \* the argument df: NoKline or [bars, columns]
    series,               \* what the prices of df come to: averages, MACD bars, RSI means
    ind_pc,               \* "called", "returned", "raised", "off"
    ind_result            \* the value returned: NoIndicators (None) or the dict

(***************************************************************************)
(* State of the recommendations endpoint (api/v1/endpoints/market.py):     *)
(* the module-level response cache and the requests in progress.           *)
(***************************************************************************)
VARIABLES
    ep_cache,             \* _cache: [data, timestamp, ttl]
    ep_pc,                \* position of the request each pool thread is serving
    ep_req,               \* the request each thread is serving or served last
    ep_log,               \* the requests answered so far, in the order of their answers
    ep_events             \* arrivals and answers counted so far

(***************************************************************************)
(* State of fetch_and_save_stock_data (lines 103-147) and of the store.    *)
(***************************************************************************)
VARIABLES
    fs_store,             \* per symbol: rows stored, and whether today's row is among them
    fs_pc,                \* "idle", "check", "fetch", "save", "returned"
    fs_call,              \* the arguments of the call: [code, force_refresh]
    fs_df,                \* what get_daily_data returned to the call
    fs_provider_calls,    \* calls of fetcher_manager.get_daily_data so far
    fs_writes,            \* calls of db.save_daily_data that wrote, so far
    fs_result,            \* the last call's return: [success, message], or the raise
    fs_calls              \* calls made so far

cfgVars == <<stock_codes, max_workers, dry_run, send_notification,
             single_stock_notify, analysis_delay, task_faults>>
poolVars == <<task, execs>>
collectVars == <<folds, results, idx, collector, delays>>
runVars == <<cfgVars, run_pc, prefetch_calls, submitted, poolVars, collectVars,
             raised_at, market_screens, summary_calls>>

contentVars == <<converted, df_columns, cache_columns>>
chainVars == <<realtime_cache, clock, ticks, screens, chain_pc, current_time, df,
               attempt, calls, screen_result, screen_failed, contentVars>>
selVars == <<pool_size, paired_codes, codes_descending, sel_pc, cand_idx, skipped,
             scored_stocks, buy, watch>>
raceVars == <<race_pc, race_now, race_seen, race_df, race_pairs>>
capVars == <<volume_column, candidates, cap_pc, stage2_rows>>
filterVars == <<snapshot_rows, snapshot_columns, filter_pc, df_filtered, candidates_df>>

scoreVars == <<score_input, score_args, score_pc, score_result, score_calls, score_log,
               buy_recs>>

\* the state of the parts of the screen that are modelled on their own
indVars == <<kline, series, ind_pc, ind_result>>
epVars == <<ep_cache, ep_pc, ep_req, ep_log, ep_events>>
fetchVars == <<fs_store, fs_pc, fs_call, fs_df, fs_provider_calls, fs_writes, fs_result,
               fs_calls>>
svcVars == <<epVars, fetchVars>>
unitVars == <<filterVars, scoreVars, indVars, svcVars>>

vars == <<runVars, chainVars, selVars, raceVars, capVars, unitVars>>

\* what no step of run() changes: its arguments and configuration, and the
\* state of the market screen
runFrame == <<cfgVars, chainVars, selVars, raceVars, capVars, unitVars>>

\* what no step of the first stage of the screen changes
chainFrame == <<runVars, selVars, raceVars, capVars, unitVars>>

\* what no step of the second stage of the screen changes
selFrame == <<runVars, chainVars, raceVars, capVars, unitVars>>

\* what no step of a thread racing on the cache changes
raceFrame == <<runVars, selVars, capVars, unitVars, ticks, screens, chain_pc, current_time, df, attempt,
               calls, screen_result, screen_failed, contentVars>>

\* what no step of the candidate pool cap changes
capFrame == <<runVars, chainVars, selVars, raceVars, unitVars>>

\* what no step of the base and candidate filters changes
filterFrame == <<runVars, chainVars, selVars, raceVars, capVars, scoreVars, indVars, svcVars>>

\* what no call of _calculate_full_score changes
scoreFrame == <<runVars, chainVars, selVars, raceVars, capVars, filterVars, indVars, svcVars>>

\* what no call of _calculate_technical_indicators changes
indFrame == <<runVars, chainVars, selVars, raceVars, capVars, filterVars, scoreVars, svcVars>>

\* what no step of a request of the endpoint changes
epFrame == <<runVars, selVars, raceVars, capVars, filterVars, scoreVars, indVars, fetchVars,
             screens, chain_pc, current_time, df, attempt, calls, screen_result,
             screen_failed, contentVars>>

\* what no step of fetch_and_save_stock_data changes
fetchFrame == <<runVars, chainVars, selVars, raceVars, capVars, filterVars, scoreVars,
                indVars, epVars>>

NoTask == [st |-> "new", res |-> FALSE, exc |-> "none", analyzed |-> FALSE, pushed |-> FALSE]

(***************************************************************************)
(* The components at rest: the values their variables keep in the          *)
(* specifications of the other components.                                 *)
(***************************************************************************)
NoFrame == [kind |-> "none", src |-> "-", born |-> 0]
EmptyFrame == [kind |-> "empty", src |-> "-", born |-> 0]
Snapshot(prov, n) == [kind |-> "snap", src |-> prov, born |-> n]

RunAtRest ==
    /\ stock_codes = 0
    /\ task_faults = FALSE
    /\ max_workers = 1
    /\ dry_run = FALSE
    /\ send_notification = FALSE
    /\ single_stock_notify = FALSE
    /\ analysis_delay = 0
    /\ run_pc = "returned"
    /\ prefetch_calls = 0
    /\ submitted = 0
    /\ task = [i \in Tasks |-> NoTask]
    /\ execs = [i \in Tasks |-> 0]
    /\ folds = [i \in Tasks |-> 0]
    /\ results = [i \in Tasks |-> 0]
    /\ idx = 0
    /\ collector = "wait"
    /\ delays = 0
    /\ raised_at = "none"
    /\ market_screens = 0
    /\ summary_calls = 0

ChainAtRest ==
    /\ realtime_cache = [data |-> NoFrame, timestamp |-> 0, ttl |-> CacheTtl]
    /\ clock = StartClock
    /\ ticks = MaxTicks
    /\ screens = MaxScreens
    /\ chain_pc = "idle"
    /\ current_time = 0
    /\ df = NoFrame
    /\ attempt = 0
    /\ calls = <<>>
    /\ screen_result = "none"
    /\ screen_failed = FALSE
    /\ converted = {}
    /\ df_columns = {}
    /\ cache_columns = IF realtime_cache.data.kind = "snap" THEN OptionalColumns ELSE {}

SelectAtRest ==
    /\ pool_size = 0
    /\ paired_codes = FALSE
    /\ codes_descending = FALSE
    /\ skipped = {}
    /\ sel_pc = "returned"
    /\ cand_idx = 0
    /\ scored_stocks = <<>>
    /\ buy = <<>>
    /\ watch = <<>>

RaceAtRest ==
    /\ race_pc = [t \in Threads |-> "off"]
    /\ race_now = [t \in Threads |-> 0]
    /\ race_seen = [t \in Threads |-> 0]
    /\ race_df = [t \in Threads |-> NoFrame]
    /\ race_pairs = {}

CapAtRest ==
    /\ volume_column = "absent"
    /\ candidates = [k \in RowKinds |-> 0]
    /\ cap_pc = "returned"
    /\ stage2_rows = [k \in RowKinds |-> 0]

\* python's float nan and a key the indicators dict does not have, for the
\* fields that take numbers
NaN == -20000
Missing == -10000

\* indicators: gain_20d in percent, rsi, macd_histogram by its sign,
\* volatility in thousandths; ma5_above_ma10 stands for ma5 > ma10;
\* volume_ratio and change_pct in tenths, market_cap in hundreds of millions
NoArguments ==
    [gain_20d |-> Missing, ma_bullish |-> FALSE, ma5_above_ma10 |-> FALSE,
     rsi |-> Missing, macd_golden_cross |-> FALSE, macd_histogram |-> Missing,
     is_20day_high |-> FALSE, volatility |-> Missing,
     volume_ratio |-> 0, pe |-> 0, market_cap |-> 0, change_pct |-> 0]

FilterAtRest ==
    /\ snapshot_rows = <<>>
    /\ snapshot_columns = {}
    /\ filter_pc = "off"
    /\ df_filtered = {}
    /\ candidates_df = {}

ScoreAtRest ==
    /\ score_input = NoArguments
    /\ score_args = NoArguments
    /\ buy_recs = <<>>
    /\ score_pc = "off"
    /\ score_result = 0
    /\ score_calls = 0
    /\ score_log = {}

\* df is None; the function returns None
NoKline == [bars |-> -1, columns |-> {}]

\* prices that never move: equal averages, a MACD histogram of 0, no gain
\* and no loss
FlatSeries ==
    [ma5 |-> 1, ma10 |-> 1, ma20 |-> 1, hist_before |-> 0, hist_last |-> 0,
     avg_gain |-> 0, avg_loss |-> 0]
NoIndicators == [bars |-> -1]

IndicatorsAtRest ==
    /\ kline = NoKline
    /\ series = FlatSeries
    /\ ind_pc = "off"
    /\ ind_result = NoIndicators

\* the response cache as the module's import leaves it (lines 25-29)
NoResponse == [lists |-> "none", updated_at |-> 0]
NoRequest == [arrived |-> 0, answered |-> 0, now |-> 0, screened |-> FALSE,
              contacted |-> FALSE, status |-> 0, response |-> NoResponse]

EndpointAtRest ==
    /\ ep_cache = [data |-> NoResponse, timestamp |-> 0, ttl |-> ResponseTtl]
    /\ ep_pc = [t \in Threads |-> "off"]
    /\ ep_req = [t \in Threads |-> NoRequest]
    /\ ep_log = <<>>
    /\ ep_events = 0

NoResult == [success |-> FALSE, message |-> "pending"]
NoCall == [code |-> 0, force_refresh |-> FALSE, checked |-> "no", raised |-> "none",
           before |-> [store |-> <<>>, provider_calls |-> 0, writes |-> 0]]

FetchAtRest ==
    /\ fs_store = <<>>
    /\ fs_pc = "off"
    /\ fs_call = NoCall
    /\ fs_df = "none"
    /\ fs_provider_calls = 0
    /\ fs_writes = 0
    /\ fs_result = NoResult
    /\ fs_calls = 0

ServicesAtRest == EndpointAtRest /\ FetchAtRest

UnitsAtRest == FilterAtRest /\ ScoreAtRest /\ IndicatorsAtRest /\ ServicesAtRest

(***************************************************************************)
(* process_single_stock and the collaborators it calls.                    *)
(***************************************************************************)
\* outcomes of fetch_and_save_stock_data's collaborators (has_today_data,
\* get_daily_data, save_daily_data): all fine, an empty frame, an exception
FetchOutcomes(faults) == IF faults THEN {"ok", "empty", "raise"} ELSE {"ok", "empty"}
\* outcomes of the analysis: a result, None, an exception inside analyze_stock
AnalysisOutcomes(faults) == IF faults THEN {"result", "none", "raise"} ELSE {"result", "none"}
\* outcomes of notifier.is_available()
AvailOutcomes(faults) == IF faults THEN {"yes", "no", "raise"} ELSE {"yes", "no"}
\* outcomes of the single-stock push (generate report, notifier.send)
PushOutcomes(faults) == IF faults THEN {"sent", "failed", "raise"} ELSE {"sent", "failed"}

\* fetch_and_save_stock_data: (success, error); every exception is caught inside
FetchAndSaveStockData(fetch) == fetch = "ok"

\* analyze_stock: the AnalysisResult or None; every exception is caught inside
AnalyzeStock(analysis) == analysis = "result"

\* the stage of process_single_stock that raised last, among the stages reached
RaisedStage(skip_analysis, notify, fetch, analysis, avail, push) ==
    IF skip_analysis THEN (IF fetch = "raise" THEN "fetch" ELSE "none")
    ELSE IF ~AnalyzeStock(analysis)
         THEN (IF analysis = "raise" THEN "analysis"
               ELSE IF fetch = "raise" THEN "fetch" ELSE "none")
    ELSE IF ~notify
         THEN (IF fetch = "raise" THEN "fetch" ELSE "none")
    ELSE IF avail = "raise" THEN "avail"
    ELSE IF avail = "yes" /\ push = "raise" THEN "push"
    ELSE IF fetch = "raise" THEN "fetch" ELSE "none"

ProcessSingleStock_PushDrops(skip_analysis, notify, fetch, analysis, avail, push) ==
    /\ ~skip_analysis
    /\ AnalyzeStock(analysis)
    /\ (notify => avail # "raise")
    /\ ~(notify /\ avail = "yes" /\ push = "raise")

\* process_single_stock: TRUE when it returns an AnalysisResult, FALSE when None
ProcessSingleStock(skip_analysis, notify, fetch, analysis, avail, push) ==
    /\ ~skip_analysis
    /\ AnalyzeStock(analysis)
    /\ (notify => avail # "raise")

\* lines 545-549: analyze_stock is called unless skip_analysis (the run's
\* dry_run) returned None before it
AnalyzerInvoked(skip_analysis) == ~skip_analysis

\* lines 551-575: the single-stock report is generated and handed to
\* notifier.send once the analysis gave a result, in single-stock mode, with
\* an available notifier
PushAttempted(skip_analysis, notify, analysis, avail) ==
    /\ ~skip_analysis
    /\ AnalyzeStock(analysis)
    /\ notify
    /\ avail = "yes"

(***************************************************************************)
(* run().                                                                  *)
(***************************************************************************)
NeedsPrefetch_Strict(n) == n > PrefetchThreshold

NeedsPrefetch(n) == n >= PrefetchThreshold

Running == {i \in Tasks : task[i].st = "running"}
Queued == {i \in Tasks : task[i].st = "queued"}
Terminal == {i \in Tasks : task[i].st \in {"done", "collected"}}
Collected == {i \in Tasks : task[i].st = "collected"}
Dispatched == {i \in Tasks : task[i].st # "new"}

CanStart_Unbounded(i) ==
    /\ task[i].st = "queued"
    /\ \A j \in Queued : i <= j

\* ThreadPoolExecutor(max_workers): a work item leaves the queue, in submission
\* order, when one of the at most max_workers threads is free
CanStart(i) ==
    /\ task[i].st = "queued"
    /\ \A j \in Queued : i <= j
    /\ Cardinality(Running) < max_workers

FoldResult_Always(rs, i, res) == [rs EXCEPT ![i] = @ + 1]

\* if result: results.append(result)
FoldResult(rs, i, res) == IF res THEN [rs EXCEPT ![i] = @ + 1] ELSE rs

SleepAfter_EveryTask(k, n, delay) == k < n /\ delay > 0

\* if idx < len(stock_codes) - 1 and analysis_delay > 0: time.sleep(analysis_delay)
SleepAfter(k, n, delay) == k < n - 1 /\ delay > 0

InitRun ==
    /\ stock_codes \in 0..MaxSymbols
    /\ task_faults \in BOOLEAN
    /\ task_faults => stock_codes <= MaxFaultSymbols
    /\ max_workers \in 1..MaxWorkers
    /\ dry_run \in BOOLEAN
    /\ send_notification \in BOOLEAN
    /\ single_stock_notify \in BOOLEAN
    /\ (single_stock_notify /\ send_notification /\ ~dry_run) => stock_codes <= MaxPushSymbols
    /\ analysis_delay \in DelayChoices
    /\ run_pc = "idle"
    /\ prefetch_calls = 0
    /\ submitted = 0
    /\ task = [i \in Tasks |-> NoTask]
    /\ execs = [i \in Tasks |-> 0]
    /\ folds = [i \in Tasks |-> 0]
    /\ results = [i \in Tasks |-> 0]
    /\ idx = 0
    /\ collector = "wait"
    /\ delays = 0
    /\ raised_at = "none"
    /\ market_screens = 0
    /\ summary_calls = 0
    /\ ChainAtRest
    /\ SelectAtRest
    /\ RaceAtRest
    /\ CapAtRest
    /\ UnitsAtRest

\* lines 607-628: empty list -> return []; the prefetch call is issued when
\* the list has PrefetchThreshold entries or more
RunStart ==
    /\ run_pc = "idle"
    /\ IF stock_codes = 0
       THEN run_pc' = "returned" /\ UNCHANGED prefetch_calls
       ELSE IF NeedsPrefetch(stock_codes)
            THEN run_pc' = "prefetching" /\ prefetch_calls' = prefetch_calls + 1
            ELSE run_pc' = "dispatching" /\ UNCHANGED prefetch_calls
    /\ UNCHANGED <<runFrame, submitted, poolVars, collectVars, raised_at, market_screens, summary_calls>>

\* line 625: prefetch_realtime_quotes returns its count
PrefetchReturn ==
    /\ run_pc = "prefetching"
    /\ run_pc' = "dispatching"
    /\ UNCHANGED <<runFrame, prefetch_calls, submitted, poolVars, collectVars,
                   raised_at, market_screens, summary_calls>>

\* line 625: prefetch_realtime_quotes raises; nothing in run() catches it
PrefetchRaise ==
    /\ run_pc = "prefetching"
    /\ run_pc' = "raised"
    /\ raised_at' = "prefetch"
    /\ UNCHANGED <<runFrame, prefetch_calls, submitted, poolVars, collectVars,
                   market_screens, summary_calls>>

\* lines 646-655: executor.submit for the next entry of stock_codes; after the
\* last one the comprehension is complete and as_completed starts
Submit ==
    /\ run_pc = "dispatching"
    /\ submitted < stock_codes
    /\ submitted' = submitted + 1
    /\ task' = [task EXCEPT ![submitted + 1].st = "queued"]
    /\ run_pc' = IF submitted + 1 = stock_codes THEN "collecting" ELSE "dispatching"
    /\ UNCHANGED <<runFrame, prefetch_calls, execs, collectVars, raised_at, market_screens, summary_calls>>

\* a pool thread takes the next work item and enters process_single_stock
StartTask(i) ==
    /\ CanStart(i)
    /\ task' = [task EXCEPT ![i].st = "running"]
    /\ execs' = [execs EXCEPT ![i] = @ + 1]
    /\ UNCHANGED <<runFrame, run_pc, prefetch_calls, submitted, collectVars,
                   raised_at, market_screens, summary_calls>>

\* what process_single_stock can come to under the run's flags: the pairs
\* (returned a result, stage that raised last) over every collaborator outcome
TaskOutcomes ==
    LET notify == single_stock_notify /\ send_notification
    IN {[res |-> ProcessSingleStock(dry_run, notify, fetch, analysis, avail, push),
         exc |-> RaisedStage(dry_run, notify, fetch, analysis, avail, push),
         analyzed |-> AnalyzerInvoked(dry_run),
         pushed |-> PushAttempted(dry_run, notify, analysis, avail)] :
            fetch \in FetchOutcomes(task_faults),
            analysis \in AnalysisOutcomes(task_faults),
            avail \in AvailOutcomes(task_faults),
            push \in PushOutcomes(task_faults)}

\* lines 536-582: process_single_stock runs to its return; the future is done
FinishTask(i) ==
    /\ task[i].st = "running"
    /\ \E o \in TaskOutcomes :
          task' = [task EXCEPT ![i] = [st |-> "done", res |-> o.res, exc |-> o.exc,
                                       analyzed |-> o.analyzed, pushed |-> o.pushed]]
    /\ UNCHANGED <<runFrame, run_pc, prefetch_calls, submitted, execs, collectVars,
                   raised_at, market_screens, summary_calls>>

\* lines 658-671: as_completed yields a finished future; its result is folded
\* into results; the collector then sleeps unless this was the last position.
\* Leaving the loop leaves the with block (every future is done by then).
Collect(i) ==
    /\ run_pc = "collecting"
    /\ collector = "wait"
    /\ task[i].st = "done"
    /\ task' = [task EXCEPT ![i].st = "collected"]
    /\ folds' = [folds EXCEPT ![i] = @ + 1]
    /\ results' = FoldResult(results, i, task[i].res)
    /\ idx' = idx + 1
    /\ IF SleepAfter(idx, stock_codes, analysis_delay)
       THEN /\ collector' = "sleep"
            /\ delays' = delays + 1
            /\ UNCHANGED run_pc
       ELSE /\ UNCHANGED <<collector, delays>>
            /\ run_pc' = IF idx + 1 = stock_codes THEN "counting" ELSE "collecting"
    /\ UNCHANGED <<runFrame, prefetch_calls, submitted, execs, raised_at, market_screens, summary_calls>>

\* line 668: time.sleep(analysis_delay) returns
Wake ==
    /\ run_pc = "collecting"
    /\ collector = "sleep"
    /\ collector' = "wait"
    /\ run_pc' = IF idx = stock_codes THEN "counting" ELSE "collecting"
    /\ UNCHANGED <<runFrame, prefetch_calls, submitted, poolVars, folds, results, idx,
                   delays, raised_at, market_screens, summary_calls>>

HasResults == \E i \in Tasks : results[i] > 0

SummaryDue_ResultsOrNot(has_results, send, dry) == send /\ ~dry

\* line 688: if results and send_notification and not dry_run
SummaryDue(has_results, send, dry) == has_results /\ send /\ ~dry

\* lines 674-699: the statistics, then the market screen (690) and the
\* summary notification (694 or 696) (neither raises: both catch every
\* exception), then return
CountAndReturn ==
    /\ run_pc = "counting"
    /\ run_pc' = "returned"
    /\ IF SummaryDue(HasResults, send_notification, dry_run)
       THEN market_screens' = market_screens + 1 /\ summary_calls' = summary_calls + 1
       ELSE UNCHANGED <<market_screens, summary_calls>>
    /\ UNCHANGED <<runFrame, prefetch_calls, submitted, poolVars, collectVars, raised_at>>

\* line 679: in dry-run mode db.has_today_data raises; nothing in run() catches it
CountRaise ==
    /\ run_pc = "counting"
    /\ dry_run
    /\ run_pc' = "raised"
    /\ raised_at' = "count"
    /\ UNCHANGED <<runFrame, prefetch_calls, submitted, poolVars, collectVars,
                   market_screens, summary_calls>>

NextRun ==
    \/ RunStart
    \/ PrefetchReturn
    \/ PrefetchRaise
    \/ Submit
    \/ \E i \in Tasks : StartTask(i)
    \/ \E i \in Tasks : FinishTask(i)
    \/ \E i \in Tasks : Collect(i)
    \/ Wake
    \/ CountAndReturn
    \/ CountRaise

SpecRun == InitRun /\ [][NextRun]_vars

(***************************************************************************)
(* Properties of run().                                                    *)
(***************************************************************************)
AllCollected == \A i \in 1..stock_codes : task[i].st = "collected"
PastCollection == run_pc \in {"counting", "returned"} \/ raised_at = "count"

C4_PrefetchOnceBeforeDispatch ==
    /\ stock_codes < 5 => prefetch_calls = 0
    /\ (stock_codes >= 5 /\ run_pc # "idle") => prefetch_calls = 1
    /\ run_pc = "idle" => prefetch_calls = 0
    /\ run_pc \in {"idle", "prefetching"} => submitted = 0 /\ Dispatched = {}
    /\ raised_at = "prefetch" => submitted = 0 /\ Dispatched = {}

\* C4 witness: five symbols, the single prefetch call returned, tasks submitted.
C4_Witness ==
    /\ stock_codes = 5
    /\ prefetch_calls = 1
    /\ submitted > 0
    /\ run_pc = "dispatching"

\* C5 (as stated): run is in its Done state (statistics, notification,
\* return) only when every dispatched task is terminal, and once every task
\* has terminated and been collected run goes on to return.
C5_DoneAfterAllTasksAndReturns ==
    /\ [](PastCollection => (AllCollected /\ Running = {} /\ Queued = {}))
    /\ [][run_pc = "counting" => run_pc' \in {"counting", "returned"}]_vars

\* C6: at most max_workers tasks execute at the same time.
C6_BoundedConcurrency == Cardinality(Running) <= max_workers

\* C6 witness: the pool is saturated with two tasks while another one waits.
C6_Witness ==
    /\ max_workers = 2
    /\ Cardinality(Running) = 2
    /\ Queued # {}

\* C7: each entry of the symbol list is one task, executed once by one
\* worker, folded once; a result appears once in the result list, an absent
\* result never, and the list is no longer than the symbol list.
SumResults == LET s[k \in 0..MaxSymbols] == IF k = 0 THEN 0 ELSE s[k - 1] + results[k]
              IN s[MaxSymbols]

C7_ExactlyOnce ==
    /\ submitted <= stock_codes
    /\ Dispatched = 1..submitted
    /\ \A i \in Tasks :
         /\ execs[i] = (IF task[i].st \in {"running", "done", "collected"} THEN 1 ELSE 0)
         /\ folds[i] = (IF task[i].st = "collected" THEN 1 ELSE 0)
         /\ results[i] = (IF task[i].st = "collected" /\ task[i].res THEN 1 ELSE 0)
    /\ idx = Cardinality(Collected)
    /\ SumResults <= stock_codes
    /\ run_pc = "returned" => \A i \in 1..stock_codes : execs[i] = 1 /\ folds[i] = 1

\* C7 witness: run returned a list holding one task's result once and
\* nothing for a task whose result was absent.
C7_Witness ==
    /\ run_pc = "returned"
    /\ \E i, j \in Tasks :
         /\ task[i].res /\ results[i] = 1
         /\ task[j].st = "collected" /\ ~task[j].res /\ results[j] = 0

\* C8 (as stated): a failure of the batch prefetch or of the success
\* counting does not fail the batch: run does not end by raising.
C8_OuterFailureDoesNotFailBatch == run_pc # "raised" /\ raised_at = "none"

\* C40: in a run with dry_run the analyzer is invoked for no symbol, no
\* result enters the result list, and neither the market screen nor a
\* notification (single-stock or summary) is triggered; in any run the market
\* screen and the summary notification are triggered only once every task
\* is collected, and only with a non-empty result list, send_notification
\* and no dry_run.
C40_DryRunAndSummaryGate ==
    /\ dry_run =>
          /\ \A i \in Tasks : ~task[i].analyzed /\ ~task[i].pushed
          /\ ~HasResults
          /\ market_screens = 0
          /\ summary_calls = 0
    /\ (market_screens > 0 \/ summary_calls > 0) =>
          /\ run_pc = "returned"
          /\ AllCollected
          /\ HasResults
          /\ send_notification
          /\ ~dry_run

\* C40 witness: a dry run over several symbols with send_notification set
\* has returned: every task ran and was collected, and nothing was analysed,
\* pushed or screened.
C40_Witness ==
    /\ dry_run
    /\ send_notification
    /\ single_stock_notify
    /\ stock_codes >= 2
    /\ run_pc = "returned"
    /\ AllCollected
    /\ \A i \in 1..stock_codes : execs[i] = 1
    /\ market_screens = 0
    /\ summary_calls = 0

\* C9: with analysis_delay > 0 the collector sleeps once after each collected
\* completion except the last, never before the collection starts, and while
\* it sleeps the pool goes on starting and finishing tasks.
C9_DelayBetweenCompletions ==
    /\ delays = (IF analysis_delay > 0 /\ idx > 0
                 THEN (IF idx = stock_codes THEN idx - 1 ELSE idx)
                 ELSE 0)
    /\ run_pc \in {"idle", "prefetching", "dispatching"} => delays = 0 /\ collector = "wait"
    /\ collector = "sleep" => analysis_delay > 0 /\ run_pc = "collecting"
    /\ collector = "sleep" =>
          \A i \in Tasks :
             /\ task[i].st = "running" => ENABLED FinishTask(i)
             /\ CanStart(i) => ENABLED StartTask(i)

\* C9 witness: the collector sleeps after a completion while a task is
\* running and another is still queued.
C9_Witness ==
    /\ collector = "sleep"
    /\ delays = 1
    /\ Running # {}
    /\ Queued # {}


(***************************************************************************)
(* screen_market_stocks, first stage: the snapshot cache and the chain of  *)
(* snapshot providers (lines 935-1116).                                    *)
(*   em    ak.stock_zh_a_spot_em, the primary bulk endpoint                *)
(*   tcp   baostock + pytdx                                                *)
(*   ef    efinance                                                        *)
(*   sina  ak.stock_zh_a_spot, the last resort                             *)
(***************************************************************************)
Providers == <<"em", "tcp", "ef", "sina">>

Rank(prov) == CHOOSE k \in 1..Len(Providers) : Providers[k] = prov

\* what a provider's call can come to
EmOutcomes == {"raise", "none", "empty", "snap"}
TcpOutcomes == {"raise", "unavailable", "snap"}
EfOutcomes == {"raise", "none", "empty", "snap"}
SinaOutcomes == {"raise", "none", "empty", "snap"}

\* df is None or df.empty
IsMissing(d) == d.kind \in {"none", "empty"}

NeedFallback_Always(d) == TRUE

\* lines 963, 1060, 1082: if df is None or df.empty
NeedFallback(d) == IsMissing(d)

BackoffBefore_Flat(k) == IF k > 0 THEN BackoffSeconds ELSE 0

\* lines 949-950: if attempt > 0: _time.sleep(5 * attempt)
BackoffBefore(k) == IF k > 0 THEN BackoffSeconds * k ELSE 0

\* the record of one provider call: the provider, whether it yielded a
\* non-empty frame, the backoff slept before it, the clock at its return
Call(prov, out, slept, now) ==
    [prov |-> prov, ok |-> out = "snap", wait |-> slept, at |-> now]

CacheFresh_Never(cache, now) == FALSE

\* lines 938-940: the cache holds a non-empty frame younger than its ttl
CacheFresh(cache, now) ==
    /\ cache.data.kind # "none"
    /\ cache.data.kind # "empty"
    /\ now - cache.timestamp < cache.ttl

StoreSnapshot_StampOnly(cache, d, now) == [cache EXCEPT !.timestamp = now]

\* _realtime_cache['data'] = df; _realtime_cache['timestamp'] = current_time
StoreSnapshot(cache, d, now) == [cache EXCEPT !.data = d, !.timestamp = now]

CacheAfter_StoreAny(cache, out, d, now) == StoreSnapshot(cache, d, now)

\* lines 953-955, 1048-1051, 1066-1076, 1092-1109: the cache after a provider
\* call: the stores sit under `if df is not None and not df.empty` (`if
\* _rows` for pytdx), so only a non-empty frame is written, and an exception
\* is caught before any store
CacheAfter(cache, out, d, now) ==
    IF out = "snap" THEN StoreSnapshot(cache, d, now) ELSE cache

\* df after a provider call `df = provider()` that may raise: an exception
\* leaves df as the handler leaves it (`keep`), a return assigns it
AssignedFrame(out, prov, keep) ==
    CASE out = "snap" -> Snapshot(prov, screens)
      [] out = "empty" -> EmptyFrame
      [] out = "none" -> NoFrame
      [] OTHER -> keep

\* the optional columns a provider's frame can come with: the primary bulk
\* endpoint has both, the rows built from pytdx quotes (1038-1045) have
\* neither, the other two libraries' frames have whatever they have
Supplied(prov) ==
    CASE prov = "em" -> {OptionalColumns}
      [] prov = "tcp" -> {{}}
      [] OTHER -> SUBSET OptionalColumns

\* the optional columns of a provider's frame when it is stored: the primary's
\* and the pytdx frame are stored as they are (952-955, 1048-1051), efinance
\* gets 60日涨跌幅 = 0.0 when absent (1072-1073), the last resort gets
\* 量比 = 1.0 and 60日涨跌幅 = 0.0 when absent (1100-1103)
Normalized(prov, cols) ==
    CASE prov = "ef" -> cols \cup {"change_60d"}
      [] prov = "sina" -> cols \cup {"volume_ratio", "change_60d"}
      [] OTHER -> cols

\* the optional columns of df after a provider call, see AssignedFrame
AssignedColumns(out, prov, cols, keep) ==
    CASE out = "snap" -> Normalized(prov, cols)
      [] out \in {"empty", "none"} -> {}
      [] OTHER -> keep

CacheChoices ==
    { [data |-> NoFrame, timestamp |-> 0, ttl |-> CacheTtl],
      [data |-> EmptyFrame, timestamp |-> StartClock, ttl |-> CacheTtl],
      [data |-> Snapshot("em", 0), timestamp |-> StartClock, ttl |-> CacheTtl],
      [data |-> Snapshot("em", 0), timestamp |-> StartClock - CacheTtl, ttl |-> CacheTtl] }

InitChain ==
    /\ realtime_cache \in CacheChoices
    /\ clock = StartClock
    /\ ticks = 0
    /\ screens = 0
    /\ chain_pc = "idle"
    /\ current_time = 0
    /\ df = NoFrame
    /\ attempt = 0
    /\ calls = <<>>
    /\ screen_result = "none"
    /\ screen_failed = FALSE
    /\ converted = {}
    /\ df_columns = {}
    /\ cache_columns = IF realtime_cache.data.kind = "snap" THEN OptionalColumns ELSE {}
    /\ RunAtRest
    /\ SelectAtRest
    /\ RaceAtRest
    /\ CapAtRest
    /\ UnitsAtRest

\* time passes between two screens
Tick ==
    /\ chain_pc = "idle"
    /\ ticks < MaxTicks
    /\ ticks' = ticks + 1
    /\ clock' = clock + TickSeconds
    /\ UNCHANGED <<realtime_cache, screens, chain_pc, current_time, df, attempt, calls,
                   screen_result, screen_failed, contentVars>>
    /\ UNCHANGED chainFrame

\* lines 936-946: read the clock, then use the cache if it is fresh or enter
\* the provider chain
ScreenStart ==
    /\ chain_pc = "idle"
    /\ screens < MaxScreens
    /\ screens' = screens + 1
    /\ current_time' = clock
    /\ calls' = <<>>
    /\ attempt' = 0
    /\ IF CacheFresh(realtime_cache, clock)
       THEN df' = realtime_cache.data /\ df_columns' = cache_columns /\ chain_pc' = "final"
       ELSE df' = NoFrame /\ df_columns' = {} /\ chain_pc' = "em"
    /\ screen_failed' = FALSE
    /\ UNCHANGED <<realtime_cache, clock, ticks, screen_result, converted, cache_columns>>
    /\ UNCHANGED chainFrame

\* lines 947-960: one pass of the primary provider's retry loop: the backoff
\* sleep, the call, the store and break on a non-empty frame
EmTry ==
    /\ chain_pc = "em"
    /\ \E out \in EmOutcomes, cols \in Supplied("em") :
         /\ clock' = clock + BackoffBefore(attempt)
         /\ calls' = Append(calls, Call("em", out, BackoffBefore(attempt), clock'))
         /\ df' = AssignedFrame(out, "em", NoFrame)
         /\ df_columns' = AssignedColumns(out, "em", cols, {})
         /\ realtime_cache' = CacheAfter(realtime_cache, out, df', current_time)
         /\ cache_columns' = IF out = "snap" THEN df_columns' ELSE cache_columns
         /\ attempt' = attempt + 1
         /\ chain_pc' = IF out = "snap" \/ attempt + 1 = EmAttempts THEN "tcp" ELSE "em"
    /\ UNCHANGED <<ticks, screens, current_time, screen_result, screen_failed, converted>>
    /\ UNCHANGED chainFrame

\* lines 962-1057: baostock + pytdx, tried when df is still missing; any
\* failure (exception, no server, no rows) leaves df as it was
TcpTry ==
    /\ chain_pc = "tcp"
    /\ IF NeedFallback(df)
       THEN \E out \in TcpOutcomes, cols \in Supplied("tcp") :
              /\ calls' = Append(calls, Call("tcp", out, 0, clock))
              /\ df' = AssignedFrame(out, "tcp", df)
              /\ df_columns' = AssignedColumns(out, "tcp", cols, df_columns)
              /\ realtime_cache' = CacheAfter(realtime_cache, out, df', current_time)
              /\ cache_columns' = IF out = "snap" THEN df_columns' ELSE cache_columns
       ELSE UNCHANGED <<calls, df, realtime_cache, df_columns, cache_columns>>
    /\ chain_pc' = "ef"
    /\ UNCHANGED <<clock, ticks, screens, current_time, attempt, screen_result,
                   screen_failed, converted>>
    /\ UNCHANGED chainFrame

\* lines 1059-1079: efinance, tried when df is still missing
EfTry ==
    /\ chain_pc = "ef"
    /\ IF NeedFallback(df)
       THEN \E out \in EfOutcomes, cols \in Supplied("ef") :
              /\ calls' = Append(calls, Call("ef", out, 0, clock))
              /\ df' = AssignedFrame(out, "ef", df)
              /\ df_columns' = AssignedColumns(out, "ef", cols, df_columns)
              /\ realtime_cache' = CacheAfter(realtime_cache, out, df', current_time)
              /\ cache_columns' = IF out = "snap" THEN df_columns' ELSE cache_columns
       ELSE UNCHANGED <<calls, df, realtime_cache, df_columns, cache_columns>>
    /\ chain_pc' = "sina"
    /\ UNCHANGED <<clock, ticks, screens, current_time, attempt, screen_result,
                   screen_failed, converted>>
    /\ UNCHANGED chainFrame

\* lines 1081-1112: the last-resort endpoint, tried when df is still missing
SinaTry ==
    /\ chain_pc = "sina"
    /\ IF NeedFallback(df)
       THEN \E out \in SinaOutcomes, cols \in Supplied("sina") :
              /\ calls' = Append(calls, Call("sina", out, 0, clock))
              /\ df' = AssignedFrame(out, "sina", df)
              /\ df_columns' = AssignedColumns(out, "sina", cols, df_columns)
              /\ realtime_cache' = CacheAfter(realtime_cache, out, df', current_time)
              /\ cache_columns' = IF out = "snap" THEN df_columns' ELSE cache_columns
       ELSE UNCHANGED <<calls, df, realtime_cache, df_columns, cache_columns>>
    /\ chain_pc' = "final"
    /\ UNCHANGED <<clock, ticks, screens, current_time, attempt, screen_result,
                   screen_failed, converted>>
    /\ UNCHANGED chainFrame

\* lines 1118-1125: `df[col] = pd.to_numeric(...)` reassigns the numeric
\* columns of the object df is bound to
NumericConversion(done, d) == done \cup {d}

\* lines 1114-1116 and the stages after them: without a frame the screen
\* returns empty lists, with one it converts the numeric columns, then goes
\* on to filter, score and select on copies (1136 on)
ScreenFinish ==
    /\ chain_pc = "final"
    /\ screen_result' = IF IsMissing(df) THEN "empty" ELSE "screened"
    /\ converted' = IF IsMissing(df) THEN converted ELSE NumericConversion(converted, df)
    /\ chain_pc' = "idle"
    /\ UNCHANGED <<realtime_cache, clock, ticks, screens, current_time, df, attempt, calls,
                   screen_failed, df_columns, cache_columns>>
    /\ UNCHANGED chainFrame

OnScreenException_Propagate == "raised"

\* lines 1357-1359: except Exception: log, return {'buy': [], 'watch': []}
OnScreenException == "empty"

\* an exception raised anywhere inside the try block of lines 927-1355 and
\* not caught by a provider's own handler (an import, a missing column, a
\* failure of the later stages) reaches the handler of line 1357
ScreenFail ==
    /\ chain_pc # "idle"
    /\ screen_failed' = TRUE
    /\ screen_result' = OnScreenException
    /\ chain_pc' = "idle"
    /\ UNCHANGED <<realtime_cache, clock, ticks, screens, current_time, df, attempt, calls,
                   contentVars>>
    /\ UNCHANGED chainFrame

NextChain ==
    \/ Tick
    \/ ScreenStart
    \/ EmTry
    \/ TcpTry
    \/ EfTry
    \/ SinaTry
    \/ ScreenFinish
    \/ ScreenFail

SpecChain == InitChain /\ [][NextChain]_vars

(***************************************************************************)
(* Properties of the provider chain.                                       *)
(***************************************************************************)
\* C10: the providers are tried in the fixed order em, tcp, ef, sina: a
\* provider is called only after every provider before it was called and
\* yielded no non-empty snapshot, no provider is called after a call that
\* yielded one, and a screen that finds the cache stale starts with em.
C10_FixedFallbackOrder ==
    /\ \A k \in 1..Len(calls) :
         /\ \A j \in 1..(k - 1) : Rank(calls[j].prov) <= Rank(calls[k].prov)
         /\ \A r \in 1..(Rank(calls[k].prov) - 1) :
               \E j \in 1..(k - 1) : calls[j].prov = Providers[r]
         /\ \A j \in 1..(k - 1) : ~calls[j].ok
    /\ chain_pc \in {"tcp", "ef", "sina"} => calls # <<>>
    /\ (chain_pc = "final" /\ IsMissing(df)) =>
          \A r \in 1..Len(Providers) : \E j \in 1..Len(calls) : calls[j].prov = Providers[r]

\* C10 witness: every provider before the last resort failed, in order, and
\* the last resort yielded the snapshot.
C10_Witness ==
    /\ Len(calls) = 6
    /\ \A j \in 1..3 : calls[j].prov = "em" /\ ~calls[j].ok
    /\ calls[4].prov = "tcp" /\ ~calls[4].ok
    /\ calls[5].prov = "ef" /\ ~calls[5].ok
    /\ calls[6].prov = "sina" /\ calls[6].ok
    /\ df = Snapshot("sina", screens)

\* the calls of one provider made before the k-th call of this screen
EarlierTries(k) == {j \in 1..(k - 1) : calls[j].prov = calls[k].prov}

C12_StoredBeforeUse ==
    /\ (\E k \in 1..Len(calls) : calls[k].ok) =>
          /\ df.kind = "snap"
          /\ df.src = calls[Len(calls)].prov
          /\ realtime_cache.data = df
          /\ realtime_cache.timestamp = current_time
    /\ (chain_pc = "final" /\ calls = <<>>) =>
          /\ df = realtime_cache.data
          /\ df.kind = "snap"
          /\ current_time - realtime_cache.timestamp < realtime_cache.ttl
    /\ (chain_pc = "em" /\ attempt = 0) =>
          \/ realtime_cache.data.kind # "snap"
          \/ current_time - realtime_cache.timestamp >= realtime_cache.ttl

\* C12 witness: the second screen, started within the ttl, is served without a
\* provider call the snapshot that a fallback yielded to the first screen.
C12_Witness ==
    /\ screens = 2
    /\ chain_pc = "final"
    /\ calls = <<>>
    /\ df.kind = "snap" /\ df.born = 1 /\ df.src # "em"
    /\ clock - realtime_cache.timestamp > 0

\* C13: a screen that starts while the cache holds a non-empty snapshot with
\* now - timestamp < ttl takes the cached payload, goes to the final stage
\* and calls no provider, and leaves the cache entry as it is; when the screen
\* before it was served from the cache too, with no write in between, both
\* have the same payload object.
C13_FreshCacheIsRead ==
    /\ [][(/\ chain_pc = "idle" /\ chain_pc' # "idle"
           /\ realtime_cache.data.kind = "snap"
           /\ clock - realtime_cache.timestamp < realtime_cache.ttl)
          => /\ df' = realtime_cache.data
             /\ calls' = <<>>
             /\ chain_pc' = "final"
             /\ realtime_cache' = realtime_cache
             /\ (screens >= 1 /\ calls = <<>> /\ df.kind = "snap") => df' = df]_vars
    /\ [][chain_pc = "final" => calls' = calls]_vars

\* C13 witness: two screens in a row, some time apart, were both served the
\* snapshot the cache held from the start.
C13_Witness ==
    /\ screens = 2
    /\ chain_pc = "final"
    /\ calls = <<>>
    /\ df = Snapshot("em", 0)
    /\ ticks >= 1

\* C15: a cache write stamps the time of the write: the timestamp stored with
\* the snapshot of this screen is not earlier than the moment the provider
\* call that yielded it returned, whatever backoff sleeps went before.
C15_StampIsTimeOfWrite ==
    \A k \in 1..Len(calls) :
        calls[k].ok => realtime_cache.timestamp >= calls[k].at

\* C16: the cached snapshot is never mutated in place: no step of a screen,
\* its numeric column conversion included, reassigns columns of the object
\* the cache holds.
C16_CachedSnapshotNeverMutated ==
    realtime_cache.data.kind = "snap" => realtime_cache.data \notin converted

\* C17: screen_market_stocks never raises: a screen ends by returning, and
\* it returns the empty lists when every provider failed and when an
\* exception was raised inside it.
C17_ScreenNeverRaises ==
    /\ screen_result \in {"none", "empty", "screened"}
    /\ screen_failed => chain_pc = "idle" /\ screen_result = "empty"
    /\ (chain_pc = "idle" /\ Len(calls) = 6 /\ \A k \in 1..Len(calls) : ~calls[k].ok) =>
          screen_result = "empty"

\* C17 witness: an exception was raised inside a screen after a fallback had
\* yielded its snapshot, and the screen returned the empty lists.
C17_Witness ==
    /\ chain_pc = "idle"
    /\ screen_failed
    /\ calls # <<>> /\ calls[Len(calls)].ok /\ calls[Len(calls)].prov # "em"
    /\ df.kind = "snap"
    /\ screen_result = "empty"

\* C37: a refresh in which every provider fails leaves the snapshot cache
\* unchanged: a provider call that raised, returned nothing or returned an
\* empty frame changes neither the payload nor the timestamp of the cache,
\* and the cache changes only by taking the non-empty frame a call yielded.
C37_FailedRefreshKeepsCache ==
    [][/\ (Len(calls') = Len(calls) + 1 /\ ~calls'[Len(calls')].ok) =>
             realtime_cache' = realtime_cache
       /\ realtime_cache' # realtime_cache =>
             /\ Len(calls') = Len(calls) + 1
             /\ calls'[Len(calls')].ok
             /\ realtime_cache'.data.kind = "snap"
             /\ realtime_cache'.data = df']_vars

\* C37 witness: the cache held an expired snapshot, all six provider calls
\* of the refresh failed, and the cache still holds that snapshot with its
\* old timestamp.
C37_Witness ==
    /\ chain_pc = "final"
    /\ Len(calls) = 6
    /\ \A k \in 1..Len(calls) : ~calls[k].ok
    /\ realtime_cache.data = Snapshot("em", 0)
    /\ realtime_cache.timestamp = StartClock - CacheTtl

\* C18: every snapshot accepted from a provider is normalized before it is
\* used and cached: the frame of the screen and the cached frame have the
\* volume-ratio column and the 60-day-change column, filled with the defaults
\* 1.0 and 0.0 when the provider did not supply them.
C18_AcceptedSnapshotsNormalized ==
    /\ (\E k \in 1..Len(calls) : calls[k].ok) => OptionalColumns \subseteq df_columns
    /\ realtime_cache.data.kind = "snap" => OptionalColumns \subseteq cache_columns

(***************************************************************************)
(* Threads racing on _realtime_cache.  The endpoint is a plain `def`, so   *)
(* the server runs concurrent requests on pool threads, each calling       *)
(* screen_market_stocks on the one module-level dict, which no lock        *)
(* guards.  Every read or write of a dict item is one step.                *)
(***************************************************************************)
\* line 954 (1050, 1075, 1108): _realtime_cache['data'] = df
StoreData(cache, d) == [cache EXCEPT !.data = d]

\* line 955 (1051, 1076, 1109): _realtime_cache['timestamp'] = current_time
StoreStamp(cache, now) == [cache EXCEPT !.timestamp = now]

InitRace ==
    /\ realtime_cache \in CacheChoices
    /\ clock = StartClock
    /\ ticks = 0
    /\ screens = MaxScreens
    /\ chain_pc = "idle"
    /\ current_time = 0
    /\ df = NoFrame
    /\ attempt = 0
    /\ calls = <<>>
    /\ screen_result = "none"
    /\ screen_failed = FALSE
    /\ converted = {}
    /\ df_columns = {}
    /\ cache_columns = IF realtime_cache.data.kind = "snap" THEN OptionalColumns ELSE {}
    /\ race_pc = [t \in Threads |-> "idle"]
    /\ race_now = [t \in Threads |-> 0]
    /\ race_seen = [t \in Threads |-> 0]
    /\ race_df = [t \in Threads |-> NoFrame]
    /\ race_pairs = {<<realtime_cache.data, realtime_cache.timestamp>>}
    /\ RunAtRest
    /\ SelectAtRest
    /\ CapAtRest
    /\ UnitsAtRest

\* line 936: current_time = _time.time()
RaceReadClock(t) ==
    /\ race_pc[t] = "idle"
    /\ race_now' = [race_now EXCEPT ![t] = clock]
    /\ race_pc' = [race_pc EXCEPT ![t] = "is_none"]
    /\ UNCHANGED <<realtime_cache, clock, race_seen, race_df, race_pairs>>
    /\ UNCHANGED raceFrame

\* line 938: _realtime_cache['data'] is not None
RaceCheckNone(t) ==
    /\ race_pc[t] = "is_none"
    /\ race_pc' = [race_pc EXCEPT ![t] =
                     IF realtime_cache.data.kind = "none" THEN "fetch" ELSE "is_empty"]
    /\ UNCHANGED <<realtime_cache, clock, race_now, race_seen, race_df, race_pairs>>
    /\ UNCHANGED raceFrame

\* line 939: not _realtime_cache['data'].empty
RaceCheckEmpty(t) ==
    /\ race_pc[t] = "is_empty"
    /\ race_pc' = [race_pc EXCEPT ![t] =
                     IF IsMissing(realtime_cache.data) THEN "fetch" ELSE "age"]
    /\ UNCHANGED <<realtime_cache, clock, race_now, race_seen, race_df, race_pairs>>
    /\ UNCHANGED raceFrame

\* line 940: current_time - _realtime_cache['timestamp'] < _realtime_cache['ttl']
RaceCheckAge(t) ==
    /\ race_pc[t] = "age"
    /\ race_seen' = [race_seen EXCEPT ![t] = realtime_cache.timestamp]
    /\ race_pc' = [race_pc EXCEPT ![t] =
                     IF race_now[t] - realtime_cache.timestamp < realtime_cache.ttl
                     THEN "take" ELSE "fetch"]
    /\ UNCHANGED <<realtime_cache, clock, race_now, race_df, race_pairs>>
    /\ UNCHANGED raceFrame

\* line 941: df = _realtime_cache['data']
RaceTake(t) ==
    /\ race_pc[t] = "take"
    /\ race_df' = [race_df EXCEPT ![t] = realtime_cache.data]
    /\ race_pc' = [race_pc EXCEPT ![t] = "cached"]
    /\ UNCHANGED <<realtime_cache, clock, race_now, race_seen, race_pairs>>
    /\ UNCHANGED raceFrame

\* lines 947-1112 up to a store: the chain yields a non-empty frame of one of
\* the providers, which the thread sets out to store, or none at all
RaceFetch(t) ==
    /\ race_pc[t] = "fetch"
    /\ \/ \E r \in 1..Len(Providers) :
            /\ race_df' = [race_df EXCEPT ![t] = Snapshot(Providers[r], t)]
            /\ race_pairs' = race_pairs \cup {<<Snapshot(Providers[r], t), race_now[t]>>}
            /\ race_pc' = [race_pc EXCEPT ![t] = "store_data"]
       \/ /\ race_pc' = [race_pc EXCEPT ![t] = "missing"]
          /\ UNCHANGED <<race_df, race_pairs>>
    /\ UNCHANGED <<realtime_cache, clock, race_now, race_seen>>
    /\ UNCHANGED raceFrame

\* line 954 (1050, 1075, 1108)
RaceStoreData(t) ==
    /\ race_pc[t] = "store_data"
    /\ realtime_cache' = StoreData(realtime_cache, race_df[t])
    /\ race_pc' = [race_pc EXCEPT ![t] = "store_stamp"]
    /\ UNCHANGED <<clock, race_now, race_seen, race_df, race_pairs>>
    /\ UNCHANGED raceFrame

\* line 955 (1051, 1076, 1109)
RaceStoreStamp(t) ==
    /\ race_pc[t] = "store_stamp"
    /\ realtime_cache' = StoreStamp(realtime_cache, race_now[t])
    /\ race_pc' = [race_pc EXCEPT ![t] = "fetched"]
    /\ UNCHANGED <<clock, race_now, race_seen, race_df, race_pairs>>
    /\ UNCHANGED raceFrame

NextRace ==
    \/ Tick
    \/ \E t \in Threads :
          \/ RaceReadClock(t)
          \/ RaceCheckNone(t)
          \/ RaceCheckEmpty(t)
          \/ RaceCheckAge(t)
          \/ RaceTake(t)
          \/ RaceFetch(t)
          \/ RaceStoreData(t)
          \/ RaceStoreStamp(t)

SpecRace == InitRace /\ [][NextRace]_vars

\* C14: a refresh replaces the cache entry as one atomic step: a thread that
\* was served from the cache took a payload and checked a timestamp that
\* belong to the same snapshot, and the entry itself never pairs the payload
\* of one snapshot with the timestamp of another.
C14_NoTornSnapshot ==
    /\ \A t \in Threads :
          race_pc[t] = "cached" => <<race_df[t], race_seen[t]>> \in race_pairs
    /\ <<realtime_cache.data, realtime_cache.timestamp>> \in race_pairs

(***************************************************************************)
(* screen_market_stocks, the base filter and the candidate filter (lines   *)
(* 1127-1159).  A row of df is [name, price, amount, change_pct,           *)
(* volume_ratio, market_cap, pe]: name is the kind of marker 名称 contains,  *)
(* price (最新价), change_pct (涨跌幅) and volume_ratio (量比) are in tenths,   *)
(* amount (成交额) is in millions, market_cap (总市值) in hundreds of         *)
(* millions; the value of a column df does not have is 0 and is not read.  *)
(***************************************************************************)
\* what 名称 can contain: nothing of note, 'ST', '退', '停', 'N '
NameKinds == {"plain", "ST", "delisted", "suspended", "new"}

\* the columns the candidate filter tests only where df has them
FilterColumns == {"volume_ratio", "market_cap", "pe"}

\* line 1130: df['名称'].str.contains('ST|退|停|N ', na=False)
NameMarked(name) == name \in {"ST", "delisted", "suspended", "new"}

BaseMask_PriceFrom(row) ==
    /\ ~NameMarked(row.name)
    /\ row.price >= 50
    /\ row.amount > 0
    /\ row.change_pct < 95

\* lines 1129-1134: base_mask
BaseMask(row) ==
    /\ ~NameMarked(row.name)
    /\ row.price > 50
    /\ row.amount > 0
    /\ row.change_pct < 95

RECURSIVE SumVolumeRatio(_, _)
\* df_filtered['量比'].sum()
SumVolumeRatio(rows, ix) ==
    IF ix = {} THEN 0
    ELSE LET k == CHOOSE x \in ix : TRUE
         IN rows[k].volume_ratio + SumVolumeRatio(rows, ix \ {k})

VolumeRatioTested_IfPresent(rows, ix, cols) == "volume_ratio" \in cols

\* line 1147: '量比' in df_filtered.columns and df_filtered['量比'].sum() > 0
VolumeRatioTested(rows, ix, cols) ==
    "volume_ratio" \in cols /\ SumVolumeRatio(rows, ix) > 0

\* lines 1139-1156: candidate_mask
CandidateMask(row, rows, ix, cols) ==
    /\ row.change_pct >= -20
    /\ row.change_pct <= 70
    /\ row.amount > 100
    /\ VolumeRatioTested(rows, ix, cols) => row.volume_ratio >= 12
    /\ "market_cap" \in cols => row.market_cap > 50
    /\ "pe" \in cols => (row.pe > 0 /\ row.pe < 80)

\* the row whose fate is followed: every value on either side of every
\* threshold of the two filters
FirstRows(cols) ==
    { [name |-> n, price |-> p, amount |-> a, change_pct |-> c,
       volume_ratio |-> v, market_cap |-> m, pe |-> e] :
         n \in NameKinds, p \in {50, 51}, a \in {0, 100, 101},
         c \in {-21, -20, 70, 71, 95},
         v \in IF "volume_ratio" \in cols THEN {0, 11, 12} ELSE {0},
         m \in IF "market_cap" \in cols THEN {50, 51} ELSE {0},
         e \in IF "pe" \in cols THEN {0, 1, 79, 80} ELSE {0} }

\* the rest of df: a row that passes every test, with or without a value of
\* 量比, or an ST row with one
OtherRows(cols) ==
    { [name |-> n, price |-> 51, amount |-> 101, change_pct |-> 70,
       volume_ratio |-> v,
       market_cap |-> IF "market_cap" \in cols THEN 51 ELSE 0,
       pe |-> IF "pe" \in cols THEN 79 ELSE 0] :
         n \in {"plain", "ST"},
         v \in IF "volume_ratio" \in cols THEN {0, 12} ELSE {0} }

InitFilter ==
    /\ snapshot_columns \in SUBSET FilterColumns
    /\ \E first \in FirstRows(snapshot_columns), other \in OtherRows(snapshot_columns) :
          snapshot_rows = <<first, other>>
    /\ filter_pc = "snapshot"
    /\ df_filtered = {}
    /\ candidates_df = {}
    /\ RunAtRest
    /\ ChainAtRest
    /\ SelectAtRest
    /\ RaceAtRest
    /\ CapAtRest
    /\ ScoreAtRest
    /\ IndicatorsAtRest /\ ServicesAtRest

\* lines 1129-1136: df_filtered = df[base_mask].copy()
BaseFilter ==
    /\ filter_pc = "snapshot"
    /\ df_filtered' = {k \in DOMAIN snapshot_rows : BaseMask(snapshot_rows[k])}
    /\ filter_pc' = "base"
    /\ UNCHANGED <<snapshot_rows, snapshot_columns, candidates_df>>
    /\ UNCHANGED filterFrame

\* lines 1139-1158: candidates_df = df_filtered[candidate_mask].copy()
CandidateFilter ==
    /\ filter_pc = "base"
    /\ candidates_df' = {k \in df_filtered :
                            CandidateMask(snapshot_rows[k], snapshot_rows, df_filtered,
                                          snapshot_columns)}
    /\ filter_pc' = "candidates"
    /\ UNCHANGED <<snapshot_rows, snapshot_columns, df_filtered>>
    /\ UNCHANGED filterFrame

NextFilter ==
    \/ BaseFilter
    \/ CandidateFilter

SpecFilter == InitFilter /\ [][NextFilter]_vars

C22_OptionalChecksDegrade ==
    filter_pc = "candidates" =>
        \A k \in df_filtered :
            (/\ snapshot_rows[k].change_pct >= -20
             /\ snapshot_rows[k].change_pct <= 70
             /\ snapshot_rows[k].amount > 100) =>
                (k \in candidates_df <=>
                    /\ \/ "volume_ratio" \notin snapshot_columns
                       \/ \A j \in df_filtered : snapshot_rows[j].volume_ratio = 0
                       \/ snapshot_rows[k].volume_ratio >= 12
                    /\ \/ "market_cap" \notin snapshot_columns
                       \/ snapshot_rows[k].market_cap > 50
                    /\ \/ "pe" \notin snapshot_columns
                       \/ (snapshot_rows[k].pe > 0 /\ snapshot_rows[k].pe < 80))

\* C22 witness: df has a volume-ratio column that is 0 in every survivor of
\* the base filter and no market-cap and no PE column, and both rows were
\* kept.
C22_Witness ==
    /\ filter_pc = "candidates"
    /\ snapshot_columns = {"volume_ratio"}
    /\ snapshot_rows[2].name = "plain"
    /\ candidates_df = {1, 2}
    /\ \A k \in {1, 2} : snapshot_rows[k].volume_ratio = 0

(***************************************************************************)
(* screen_market_stocks, the cap of the candidate pool (lines 1161-1171).  *)
(* candidates_df is the number of its rows of each kind; scores are in     *)
(* hundredths.                                                             *)
(***************************************************************************)
\* how many rows of one kind a pool can have
PoolCounts == {0, 1, MaxPerKind \div 2, MaxPerKind}

RECURSIVE RowsOf(_, _)
\* the rows of the kinds ks in the pool
RowsOf(pool, ks) ==
    IF ks = {} THEN 0
    ELSE LET k == CHOOSE x \in ks : TRUE IN pool[k] + RowsOf(pool, ks \ {k})

\* len(candidates_df)
PoolLen(pool) == RowsOf(pool, DOMAIN pool)

\* candidates_df.get('量比', 1.5) for a row of kind k, in tenths: the column's
\* value, or the default where the frame has no such column
VolumeRatioOf(k, column) ==
    CASE column = "absent" -> 15
      [] column = "zero" -> 0
      [] OTHER -> KindRows[k].volume_ratio

\* line 1169: _quick_score = 量比 * (涨跌幅 + 5)
QuickScore(k, column) == VolumeRatioOf(k, column) * (KindRows[k].change_pct + 50)

Before_Ascending(a, b) == a < b

\* line 1170: sort_values('_quick_score', ascending=False)
Before(a, b) == a > b

RECURSIVE SortedScores(_)
\* the distinct quick scores, in the order sort_values puts them
SortedScores(S) ==
    IF S = {} THEN <<>>
    ELSE LET first == CHOOSE x \in S : \A y \in S \ {x} : Before(x, y)
         IN <<first>> \o SortedScores(S \ {first})

RECURSIVE Splits(_, _, _)
\* the ways n rows can be taken from the rows of the kinds ks: sort_values
\* sorts with an unstable quicksort, so rows of equal score come in any order
Splits(ks, pool, n) ==
    IF ks = {} THEN IF n = 0 THEN {<<>>} ELSE {}
    ELSE LET k == CHOOSE x \in ks : TRUE
             others == RowsOf(pool, ks \ {k})
             least == IF n > others THEN n - others ELSE 0
             most == IF pool[k] < n THEN pool[k] ELSE n
         IN UNION { { (k :> m) @@ f : f \in Splits(ks \ {k}, pool, n - m) } : m \in least..most }

RECURSIVE HeadRows(_, _, _, _)
\* line 1170: .head(n) of the sorted frame: the rows of the first scores in
\* full while they fit, then a part of the rows of the next score
HeadRows(scores, pool, column, n) ==
    IF scores = <<>> THEN { [k \in {} |-> 0] }
    ELSE LET ks == {k \in DOMAIN pool : QuickScore(k, column) = scores[1]}
             have == RowsOf(pool, ks)
             took == IF have <= n THEN { [k \in ks |-> pool[k]] } ELSE Splits(ks, pool, n)
             left == IF have <= n THEN n - have ELSE 0
         IN { t @@ f : t \in took, f \in HeadRows(Tail(scores), pool, column, left) }

CapApplies_Never(n) == FALSE

\* line 1167: if len(candidates_df) > max_candidates
CapApplies(n) == n > MaxCandidates

\* lines 1166-1171: what candidates_df can be after the cap
Capped(pool, column) ==
    IF CapApplies(PoolLen(pool))
    THEN HeadRows(SortedScores({QuickScore(k, column) : k \in DOMAIN pool}), pool, column,
                  MaxCandidates)
    ELSE {pool}

InitCap ==
    /\ volume_column \in {"absent", "signal", "zero"}
    /\ candidates \in [RowKinds -> PoolCounts]
    /\ cap_pc = "filtered"
    /\ stage2_rows = [k \in RowKinds |-> 0]
    /\ RunAtRest
    /\ ChainAtRest
    /\ SelectAtRest
    /\ RaceAtRest
    /\ UnitsAtRest

\* lines 1161-1163: an empty pool ends the screen
ReturnNoCandidates ==
    /\ cap_pc = "filtered"
    /\ PoolLen(candidates) = 0
    /\ cap_pc' = "returned"
    /\ UNCHANGED <<volume_column, candidates, stage2_rows>>
    /\ UNCHANGED capFrame

\* lines 1165-1173: cap the pool and enter the second stage
CapCandidates ==
    /\ cap_pc = "filtered"
    /\ PoolLen(candidates) > 0
    /\ stage2_rows' \in Capped(candidates, volume_column)
    /\ cap_pc' = "stage2"
    /\ UNCHANGED <<volume_column, candidates>>
    /\ UNCHANGED capFrame

NextCap ==
    \/ ReturnNoCandidates
    \/ CapCandidates

SpecCap == InitCap /\ [][NextCap]_vars

\* C19: the number of candidates that enter the second stage never exceeds
\* 150, whatever the size of the pool.
C19_AtMostMaxCandidates ==
    cap_pc = "stage2" => PoolLen(stage2_rows) <= 150

\* C19 witness: a pool of three times the cap was cut to 150 rows.
C19_Witness ==
    /\ cap_pc = "stage2"
    /\ PoolLen(candidates) > 3 * 150
    /\ PoolLen(stage2_rows) = 150

\* the quick score volume_ratio * (change_pct + 5) of a row of kind k, with
\* the volume ratio read as the pool has it
QuickScoreOfRow(k) ==
    (CASE volume_column = "absent" -> 15
       [] volume_column = "zero" -> 0
       [] OTHER -> KindRows[k].volume_ratio) * (KindRows[k].change_pct + 50)

KlineColumns == {"date", "close", "high", "low", "volume"}

Klines ==
    {NoKline} \cup [bars : 0..MaxBars, columns : SUBSET KlineColumns]

\* a moving average: nan when a close of its window is nan
MaValues == {NaN, 1, 2, 3}
HistValues == {-1, 0, 1}
MeanValues == {0, 1, 2}

\* the series of a call: one of the three parts takes every value, the two
\* others those of FlatSeries; a call that returns or raises before it reads
\* a price has the flat one
SeriesOf(k, sr) ==
    IF k = NoKline \/ k.bars < MinBars \/ k.columns # KlineColumns
    THEN sr = FlatSeries
    ELSE \/ \E a \in MaValues, b \in MaValues, c \in MaValues :
              sr = [FlatSeries EXCEPT !.ma5 = a, !.ma10 = b, !.ma20 = c]
         \/ \E before \in HistValues, last \in HistValues :
              sr = [FlatSeries EXCEPT !.hist_before = before, !.hist_last = last]
         \/ \E g \in MeanValues, l \in MeanValues :
              sr = [FlatSeries EXCEPT !.avg_gain = g, !.avg_loss = l]

TooShort_Five(k) == k = NoKline \/ k.bars = 0 \/ k.bars < 5

\* line 714: df is None or df.empty or len(df) < 20
TooShort(k) == k = NoKline \/ k.bars = 0 \/ k.bars < MinBars

\* lines 718-723: df.sort_values('date'), df['close'], df['high'],
\* df['low'], df['volume'] raise KeyError for a column df does not have
MissingColumn(k) == KlineColumns \ k.columns # {}

MaBullish_Weak(ma5, ma10, ma20) ==
    /\ ma5 # NaN /\ ma10 # NaN /\ ma20 # NaN
    /\ ma5 >= ma10 /\ ma10 >= ma20

\* lines 732-734: False unless none of the three is nan and ma5 > ma10 > ma20
MaBullish(ma5, ma10, ma20) ==
    /\ ma5 # NaN /\ ma10 # NaN /\ ma20 # NaN
    /\ ma5 > ma10 /\ ma10 > ma20

\* line 754: rs = gain / loss on floats: x / 0 is inf, 0 / 0 is nan, and
\* neither raises
Rs(gain, loss) ==
    IF loss = 0
    THEN [kind |-> IF gain = 0 THEN "nan" ELSE "inf", num |-> 0, den |-> 1]
    ELSE [kind |-> "ratio", num |-> gain, den |-> loss]

\* line 755: 100 - (100 / (1 + rs)), to the whole number below; 100 / inf
\* is 0
Rsi(rs) ==
    CASE rs.kind = "nan" -> NaN
      [] rs.kind = "inf" -> 100
      [] OTHER -> 100 - ((100 * rs.den) \div (rs.num + rs.den))

\* line 770: macd_hist.iloc[-2] < 0 and macd_hist.iloc[-1] > 0
GoldenCross(before, last) == before < 0 /\ last > 0

InitIndicators ==
    /\ kline \in Klines
    /\ SeriesOf(kline, series)
    /\ ind_pc = "called"
    /\ ind_result = NoIndicators
    /\ RunAtRest /\ ChainAtRest /\ SelectAtRest /\ RaceAtRest /\ CapAtRest
    /\ FilterAtRest /\ ScoreAtRest /\ ServicesAtRest

\* lines 714-715: return None
ReturnNoIndicators ==
    /\ ind_pc = "called"
    /\ TooShort(kline)
    /\ ind_result' = NoIndicators
    /\ ind_pc' = "returned"
    /\ UNCHANGED <<kline, series>>
    /\ UNCHANGED indFrame

\* lines 718-723: a column is missing and the KeyError leaves the function
RaiseKeyError ==
    /\ ind_pc = "called"
    /\ ~TooShort(kline)
    /\ MissingColumn(kline)
    /\ ind_pc' = "raised"
    /\ UNCHANGED <<kline, series, ind_result>>
    /\ UNCHANGED indFrame

\* lines 717-795: the dict.  ma60 is nan below 60 bars (line 729); rsi is
\* computed from 15 bars on (line 750); the MACD values keep their initial
\* False and 0 below 26 bars (lines 758-770)
ComputeIndicators ==
    /\ ind_pc = "called"
    /\ ~TooShort(kline)
    /\ ~MissingColumn(kline)
    /\ ind_result' =
          [bars |-> kline.bars,
           ma5 |-> series.ma5,
           ma10 |-> series.ma10,
           ma20 |-> series.ma20,
           ma60 |-> IF kline.bars >= 60 THEN "number" ELSE "nan",
           ma_bullish |-> MaBullish(series.ma5, series.ma10, series.ma20),
           rsi |-> IF kline.bars >= 15 THEN Rsi(Rs(series.avg_gain, series.avg_loss))
                   ELSE NaN,
           macd_histogram |-> IF kline.bars >= 26 THEN series.hist_last ELSE 0,
           macd_golden_cross |-> IF kline.bars >= 26
                                 THEN GoldenCross(series.hist_before, series.hist_last)
                                 ELSE FALSE]
    /\ ind_pc' = "returned"
    /\ UNCHANGED <<kline, series>>
    /\ UNCHANGED indFrame

NextIndicators ==
    \/ ReturnNoIndicators
    \/ RaiseKeyError
    \/ ComputeIndicators

SpecIndicators == InitIndicators /\ [][NextIndicators]_vars

\* C30: a call with a history of fewer than 20 bars, an empty one or None
\* does not raise, and what it returns is None.
C30_ShortHistoryGivesNone ==
    (ind_pc # "called" /\ (kline = NoKline \/ kline.bars < 20)) =>
        ind_pc = "returned" /\ ind_result = NoIndicators

\* a history of 19 bars with none of the columns the function reads has
\* returned None
C30_Witness ==
    /\ ind_pc = "returned"
    /\ kline.bars = 19
    /\ kline.columns = {}
    /\ ind_result = NoIndicators

\* the call has returned the dict
DictReturned == ind_pc = "returned" /\ ind_result # NoIndicators

\* C31 as stated: in the dict returned, an indicator the history is too
\* short for is unknown: the MACD histogram and the golden cross below 26
\* bars are neither a number nor a truth value, MA60 below 60 bars is nan.
C31_ShortHistoryUnknown ==
    DictReturned =>
        /\ ind_result.bars < 26 =>
              /\ ind_result.macd_histogram \in {NaN, Missing}
              /\ ind_result.macd_golden_cross \notin BOOLEAN
        /\ ind_result.bars < 60 => ind_result.ma60 = "nan"

\* C32 as stated: with a mean loss of 0 over the 14 bars the call does not
\* raise and the RSI it returns is unknown, not a number.
C32_NoLossRsiUnknown ==
    (ind_pc # "called" /\ ~TooShort(kline) /\ ~MissingColumn(kline)
       /\ series.avg_loss = 0) =>
        ind_pc = "returned" /\ ind_result.rsi = NaN

\* C33 as stated: macd_golden_cross is true exactly when the histogram is
\* <= 0 at the second-to-last bar and > 0 at the last.
C33_CrossFromZeroOrBelow ==
    (DictReturned /\ ind_result.bars >= 26) =>
        (ind_result.macd_golden_cross
            <=> (series.hist_before <= 0 /\ series.hist_last > 0))

\* C34: in every dict returned, ma_bullish implies ma5 > ma10 and
\* ma10 > ma20, and ma_bullish is false when two of the three averages are
\* equal.
C34_BullishIsStrict ==
    DictReturned =>
        /\ ind_result.ma_bullish =>
              ind_result.ma5 > ind_result.ma10 /\ ind_result.ma10 > ind_result.ma20
        /\ (ind_result.ma5 = ind_result.ma10 \/ ind_result.ma10 = ind_result.ma20
              \/ ind_result.ma5 = ind_result.ma20) => ~ind_result.ma_bullish

\* a dict with ma5 = 3 > ma10 = 2 > ma20 = 1 that says bullish
C34_Witness ==
    /\ DictReturned
    /\ ind_result.ma_bullish
    /\ ind_result.ma5 = 3 /\ ind_result.ma10 = 2 /\ ind_result.ma20 = 1

(***************************************************************************)
(* _calculate_full_score (lines 797-907).  Points are in tenths.           *)
(***************************************************************************)
\* indicators.get(key, default)
Get(v, default) == IF v = Missing THEN default ELSE v

\* a < b on floats: false when a is nan
Below(a, b) == a # NaN /\ a < b

\* lines 827-837: 20-day gain
GainPoints(a) ==
    LET gain_20d == Get(a.gain_20d, 0)
    IN IF gain_20d > 30 THEN 150
       ELSE IF gain_20d > 20 THEN 120
       ELSE IF gain_20d > 10 THEN 80
       ELSE IF gain_20d > 5 THEN 50
       ELSE IF gain_20d > 0 THEN 20
       ELSE 0

\* lines 840-843: moving-average alignment
MaPoints(a) ==
    IF a.ma_bullish THEN 100
    ELSE IF a.ma5_above_ma10 THEN 50
    ELSE 0

RsiPoints_Open(a) ==
    LET rsi == Get(a.rsi, 0)
    IN IF 50 < rsi /\ rsi < 70 THEN 80
       ELSE IF (45 <= rsi /\ rsi < 50) \/ (70 < rsi /\ rsi <= 75) THEN 50
       ELSE IF 40 <= rsi /\ rsi < 45 THEN 30
       ELSE 0

\* lines 846-852: RSI(14); every comparison with nan is false
RsiPoints(a) ==
    LET rsi == Get(a.rsi, 0)
    IN IF 50 <= rsi /\ rsi <= 70 THEN 80
       ELSE IF (45 <= rsi /\ rsi < 50) \/ (70 < rsi /\ rsi <= 75) THEN 50
       ELSE IF 40 <= rsi /\ rsi < 45 THEN 30
       ELSE 0

\* lines 855-858: MACD
MacdPoints(a) ==
    IF a.macd_golden_cross THEN 70
    ELSE IF Get(a.macd_histogram, 0) > 0 THEN 40
    ELSE 0

\* line 862: min(volume_ratio * 8, 16)
VolumeRatioPoints(a) ==
    IF a.volume_ratio * 8 < 160 THEN a.volume_ratio * 8 ELSE 160

BreakoutPoints_ChangeOnly(a) ==
    IF a.change_pct > 30 THEN 60
    ELSE IF a.change_pct > 10 THEN 30
    ELSE 0

\* lines 865-870: breakout
BreakoutPoints(a) ==
    IF a.is_20day_high THEN 100
    ELSE IF a.change_pct > 30 THEN 60
    ELSE IF a.change_pct > 10 THEN 30
    ELSE 0

\* lines 873-876: today's move
MomentumPoints(a) ==
    IF 5 <= a.change_pct /\ a.change_pct <= 50 THEN 90
    ELSE IF (0 <= a.change_pct /\ a.change_pct < 5)
            \/ (50 < a.change_pct /\ a.change_pct <= 70) THEN 50
    ELSE 0

\* lines 880-887: valuation
PePoints(a) ==
    IF 0 < a.pe /\ a.pe <= 20 THEN 100
    ELSE IF 20 < a.pe /\ a.pe <= 30 THEN 80
    ELSE IF 30 < a.pe /\ a.pe <= 40 THEN 50
    ELSE IF 40 < a.pe /\ a.pe <= 60 THEN 30
    ELSE 0

\* lines 890-896: market cap; mv_yi = market_cap / 100_000_000 is the
\* argument in the unit the model holds it in
CapPoints(a) ==
    LET mv_yi == IF a.market_cap > 0 THEN a.market_cap ELSE 0
    IN IF 100 <= mv_yi /\ mv_yi <= 500 THEN 80
       ELSE IF (50 <= mv_yi /\ mv_yi < 100) \/ (500 < mv_yi /\ mv_yi <= 1000) THEN 50
       ELSE IF mv_yi > 1000 THEN 30
       ELSE 0

\* lines 899-905: volatility
VolatilityPoints(a) ==
    LET volatility == Get(a.volatility, 0)
    IN IF Below(volatility, 20) THEN 70
       ELSE IF Below(volatility, 30) THEN 50
       ELSE IF Below(volatility, 50) THEN 30
       ELSE 0

\* lines 825-858
TrendPoints(a) == GainPoints(a) + MaPoints(a) + RsiPoints(a) + MacdPoints(a)

\* lines 860-876
VolumePricePoints(a) == VolumeRatioPoints(a) + BreakoutPoints(a) + MomentumPoints(a)

\* lines 878-905
SafetyPoints(a) == PePoints(a) + CapPoints(a) + VolatilityPoints(a)

FullScore_Stateful(a) ==
    TrendPoints(a) + VolumePricePoints(a) + SafetyPoints(a)
    + (IF realtime_cache.data.kind = "none" THEN 0 ELSE 10)

\* lines 823-907: score = 0; score += ... ; return score
FullScore(a) == TrendPoints(a) + VolumePricePoints(a) + SafetyPoints(a)

(***************************************************************************)
(* SpecScore: one candidate row is scored.  The call site binds the quote  *)
(* attributes of the row, with defaults for the missing ones, and          *)
(* _calculate_full_score adds up the ten sub-rules.  Units: gain_20d, rsi  *)
(* and pe are whole numbers, change_pct and volume_ratio tenths,           *)
(* market_cap hundreds of millions, volatility thousandths, and the        *)
(* histogram its sign.                                                     *)
(***************************************************************************)
GainValues == {Missing, -1, 0, 1, 5, 6, 10, 11, 12, 20, 21, 30, 31}
RsiValues == {Missing, NaN, 39, 40, 44, 45, 49, 50, 62, 70, 71, 75, 76}
HistogramValues == {Missing, -1, 0, 1}
VolumeRatioValues == {Missing, -10, 0, 12, 19, 20, 21}
ChangeValues == {Missing, -1, 0, 4, 5, 10, 11, 30, 31, 35, 50, 51, 70, 71}
PeValues == {Missing, -5, 0, 1, 20, 21, 30, 31, 35, 40, 41, 60, 61}
MarketCapValues == {Missing, -1, 0, 49, 50, 99, 100, 500, 501, 1000, 1001, 22625}
VolatilityValues == {Missing, NaN, 0, 19, 20, 29, 30, 49, 50}

TrendParts ==
    [gain_20d : GainValues, ma_bullish : BOOLEAN, ma5_above_ma10 : BOOLEAN,
     rsi : RsiValues, macd_golden_cross : BOOLEAN, macd_histogram : HistogramValues]

VolumePriceParts ==
    [volume_ratio : VolumeRatioValues, is_20day_high : BOOLEAN, change_pct : ChangeValues]

SafetyParts ==
    [pe : PeValues, market_cap : MarketCapValues, volatility : VolatilityValues]

TrendBase ==
    {[gain_20d |-> 12, ma_bullish |-> TRUE, ma5_above_ma10 |-> TRUE, rsi |-> 62,
      macd_golden_cross |-> FALSE, macd_histogram |-> h] : h \in {-1, 1}}
    \cup {[gain_20d |-> Missing, ma_bullish |-> FALSE, ma5_above_ma10 |-> FALSE,
           rsi |-> Missing, macd_golden_cross |-> FALSE, macd_histogram |-> Missing]}

VolumePriceBase ==
    {[volume_ratio |-> 21, is_20day_high |-> TRUE, change_pct |-> 35],
     [volume_ratio |-> 0, is_20day_high |-> FALSE, change_pct |-> 0],
     [volume_ratio |-> -10, is_20day_high |-> FALSE, change_pct |-> -1]}

SafetyBase ==
    {[pe |-> 35, market_cap |-> 22625, volatility |-> 50],
     [pe |-> 35, market_cap |-> 22625, volatility |-> Missing],
     [pe |-> 0, market_cap |-> 0, volatility |-> NaN]}

\* the row and the indicator dict of one candidate
Joined(t, v, f) ==
    [gain_20d |-> t.gain_20d, ma_bullish |-> t.ma_bullish,
     ma5_above_ma10 |-> t.ma5_above_ma10, rsi |-> t.rsi,
     macd_golden_cross |-> t.macd_golden_cross, macd_histogram |-> t.macd_histogram,
     is_20day_high |-> v.is_20day_high, volatility |-> f.volatility,
     volume_ratio |-> v.volume_ratio, pe |-> f.pe, market_cap |-> f.market_cap,
     change_pct |-> v.change_pct]

\* the cases that are scored: one group of sub-rules takes every value, the
\* two others one of their base assignments
ScoreInput(a) ==
    \/ \E t \in TrendParts, v \in VolumePriceBase, f \in SafetyBase : a = Joined(t, v, f)
    \/ \E t \in TrendBase, v \in VolumePriceParts, f \in SafetyBase : a = Joined(t, v, f)
    \/ \E t \in TrendBase, v \in VolumePriceBase, f \in SafetyParts : a = Joined(t, v, f)

\* lines 1209-1212: row.get('量比', 1.5), row.get('市盈率-动态', 50),
\* row.get('总市值', 0), row.get('涨跌幅', 0)
Bound(a) ==
    [a EXCEPT !.volume_ratio = Get(@, 15), !.pe = Get(@, 50),
              !.market_cap = Get(@, 0), !.change_pct = Get(@, 0)]

InitScore ==
    /\ ScoreInput(score_input)
    /\ score_args = NoArguments
    /\ buy_recs = <<>>
    /\ score_pc = "row"
    /\ score_result = 0
    /\ score_calls = 0
    /\ score_log = {}
    /\ RunAtRest /\ ChainAtRest /\ SelectAtRest /\ RaceAtRest /\ CapAtRest
    /\ FilterAtRest /\ IndicatorsAtRest /\ ServicesAtRest

\* lines 1207-1213: the arguments of the call
BindArguments ==
    /\ score_pc = "row"
    /\ score_args' = Bound(score_input)
    /\ score_pc' = "called"
    /\ UNCHANGED <<score_input, score_result, score_calls, score_log, buy_recs>>
    /\ UNCHANGED scoreFrame

\* lines 823-907
CalculateFullScore ==
    /\ score_pc = "called"
    /\ score_result' = FullScore(score_args)
    /\ score_calls' = score_calls + 1
    /\ score_log' = score_log \cup {<<score_args, realtime_cache, FullScore(score_args)>>}
    /\ score_pc' = "returned"
    /\ UNCHANGED <<score_input, score_args, buy_recs>>
    /\ UNCHANGED scoreFrame

NextScore ==
    \/ BindArguments
    \/ CalculateFullScore

SpecScore == InitScore /\ [][NextScore]_vars

\* C23 as stated: every returned score lies in [0, 100], the trend group
\* gives at most 40, the volume/price group at most 35 and the safety group
\* at most 25.
C23_ScoreWithinRange ==
    score_pc = "returned" =>
        /\ score_result >= 0 /\ score_result <= 1000
        /\ TrendPoints(score_args) <= 400
        /\ VolumePricePoints(score_args) <= 350
        /\ SafetyPoints(score_args) <= 250

(***************************************************************************)
(* SpecRescore: the same pipeline scores again and again, and between the  *)
(* calls the screen stores snapshots in the module-level cache.  score_log *)
(* keeps, for every call, the arguments, the cache at the time of the call *)
(* and the score returned.                                                 *)
(***************************************************************************)
RescoreInputs ==
    {Joined(t, v, f) : t \in TrendBase, v \in {w \in VolumePriceBase : w.volume_ratio # 0},
                       f \in {g \in SafetyBase : g.volatility # Missing}}

InitRescore ==
    /\ score_input \in RescoreInputs
    /\ score_args = Bound(score_input)
    /\ buy_recs = <<>>
    /\ score_pc = "called"
    /\ score_result = 0
    /\ score_calls = 0
    /\ score_log = {}
    /\ RunAtRest /\ ChainAtRest /\ SelectAtRest /\ RaceAtRest /\ CapAtRest
    /\ FilterAtRest /\ IndicatorsAtRest /\ ServicesAtRest

\* lines 1181-1213: the loop reaches the next candidate and calls again
NextCandidate ==
    /\ score_pc = "returned"
    /\ score_calls < MaxCalls
    /\ score_input' \in RescoreInputs
    /\ score_args' = Bound(score_input')
    /\ score_pc' = "called"
    /\ UNCHANGED <<score_result, score_calls, score_log, buy_recs>>
    /\ UNCHANGED scoreFrame

\* lines 954-955: another screen stores a snapshot between two calls
OtherOperation ==
    /\ score_pc = "returned"
    /\ \E d \in {NoFrame, EmptyFrame} :
          /\ realtime_cache' = StoreSnapshot(realtime_cache, d, clock)
          /\ realtime_cache' # realtime_cache
    /\ UNCHANGED <<runVars, selVars, raceVars, capVars, unitVars>>
    /\ UNCHANGED <<clock, ticks, screens, chain_pc, current_time, df, attempt, calls,
                   screen_result, screen_failed, contentVars>>

NextRescore ==
    \/ CalculateFullScore
    \/ NextCandidate
    \/ OtherOperation

SpecRescore == InitRescore /\ [][NextRescore]_vars

StatedGain(g) ==
    CASE g > 30 -> 150
      [] g > 20 /\ g <= 30 -> 120
      [] g > 10 /\ g <= 20 -> 80
      [] g > 5 /\ g <= 10 -> 50
      [] g > 0 /\ g <= 5 -> 20
      [] OTHER -> 0

StatedMa(bullish, above) ==
    CASE bullish -> 100
      [] ~bullish /\ above -> 50
      [] OTHER -> 0

StatedRsi(r) ==
    CASE r \in 50..70 -> 80
      [] r \in 45..49 \cup 71..75 -> 50
      [] r \in 40..44 -> 30
      [] OTHER -> 0

StatedMacd(cross, h) ==
    CASE cross -> 70
      [] ~cross /\ h > 0 -> 40
      [] OTHER -> 0

StatedVolume(vr) == CHOOSE m \in {vr * 8, 160} : m <= vr * 8 /\ m <= 160

StatedBreakout(high, c) ==
    CASE high -> 100
      [] ~high /\ c > 30 -> 60
      [] ~high /\ c > 10 /\ c <= 30 -> 30
      [] OTHER -> 0

StatedMomentum(c) ==
    CASE c \in 5..50 -> 90
      [] c \in 0..4 \cup 51..70 -> 50
      [] OTHER -> 0

StatedPe(pe) ==
    CASE pe \in 1..20 -> 100
      [] pe \in 21..30 -> 80
      [] pe \in 31..40 -> 50
      [] pe \in 41..60 -> 30
      [] OTHER -> 0

StatedCap(mv) ==
    CASE mv \in 100..500 -> 80
      [] mv \in 50..99 \cup 501..1000 -> 50
      [] mv > 1000 -> 30
      [] OTHER -> 0

StatedVolatility(v) ==
    CASE v = NaN -> 0
      [] v # NaN /\ v < 20 -> 70
      [] v \in 20..29 -> 50
      [] v \in 30..49 -> 30
      [] OTHER -> 0

Present(v) == IF v = Missing THEN 0 ELSE v

StatedScore(a) ==
    StatedGain(Present(a.gain_20d)) + StatedMa(a.ma_bullish, a.ma5_above_ma10)
    + StatedRsi(Present(a.rsi)) + StatedMacd(a.macd_golden_cross, Present(a.macd_histogram))
    + StatedVolume(a.volume_ratio) + StatedBreakout(a.is_20day_high, a.change_pct)
    + StatedMomentum(a.change_pct) + StatedPe(a.pe) + StatedCap(a.market_cap)
    + StatedVolatility(Present(a.volatility))

ScoredRowChoices ==
    { [change_pct |-> -10, score |-> 500],   \* watch range only
      [change_pct |-> 20,  score |-> 350],   \* both ranges, score below the buy floor
      [change_pct |-> 20,  score |-> 450],   \* eligible for buy and for watch
      [change_pct |-> 40,  score |-> 600],   \* buy range only
      [change_pct |-> 40,  score |-> 350] }  \* buy range only, score below the buy floor

\* str(row['代码']) of the k-th row of candidates_df
CodeOf(k) ==
    IF paired_codes THEN (k + 1) \div 2
    ELSE IF codes_descending THEN pool_size + 1 - k
    ELSE k

\* the position scored_stocks.sort(key=score, reverse=True) gives x among the
\* already sorted s: after every element whose score is not lower (stable)
RECURSIVE InsertByScore(_, _)
InsertByScore(x, s) ==
    IF s = <<>> THEN <<x>>
    ELSE IF Head(s).score >= x.score
         THEN <<Head(s)>> \o InsertByScore(x, Tail(s))
         ELSE <<x>> \o s

RECURSIVE SortByScore(_)
\* line 1242: scored_stocks.sort(key=lambda x: x['score'], reverse=True)
SortByScore(s) ==
    IF s = <<>> THEN <<>>
    ELSE InsertByScore(s[Len(s)], SortByScore(SubSeq(s, 1, Len(s) - 1)))

Cap_None(s) == s

\* lines 1252, 1268: candidates[:5]
Cap(s) == SubSeq(s, 1, IF Len(s) < MaxRecs THEN Len(s) ELSE MaxRecs)

BuyEligible_NoFloor(stock) ==
    /\ BuyChangeLow <= stock.change_pct
    /\ stock.change_pct <= BuyChangeHigh

\* line 1249: 0.5 <= change_pct <= 5.0 and score >= 40
BuyEligible(stock) ==
    /\ BuyChangeLow <= stock.change_pct
    /\ stock.change_pct <= BuyChangeHigh
    /\ stock.score >= BuyMinScore * 10

WatchEligible_NoExclusion(stock, buy_codes) ==
    /\ WatchChangeLow <= stock.change_pct
    /\ stock.change_pct <= WatchChangeHigh
    /\ stock.score >= WatchMinScore * 10

\* lines 1261-1265: not in buy_codes, -2 <= change_pct <= 3 and score >= 30
WatchEligible(stock, buy_codes) ==
    /\ stock.code \notin buy_codes
    /\ WatchChangeLow <= stock.change_pct
    /\ stock.change_pct <= WatchChangeHigh
    /\ stock.score >= WatchMinScore * 10

\* lines 1246-1252
BuyCandidates(sorted) == Cap(SelectSeq(sorted, BuyEligible))

\* lines 1256-1268
WatchCandidates(sorted, buy_candidates) ==
    LET buy_codes == {buy_candidates[k].code : k \in 1..Len(buy_candidates)}
        Keep(stock) == WatchEligible(stock, buy_codes)
    IN Cap(SelectSeq(sorted, Keep))

InitSelect ==
    /\ pool_size \in 1..MaxPool
    /\ paired_codes \in BOOLEAN
    /\ codes_descending \in BOOLEAN
    /\ ~(paired_codes /\ codes_descending)
    /\ codes_descending => pool_size <= MaxDescending
    /\ skipped = {}
    /\ sel_pc = "scoring"
    /\ cand_idx = 0
    /\ scored_stocks = <<>>
    /\ buy = <<>>
    /\ watch = <<>>
    /\ RunAtRest
    /\ ChainAtRest
    /\ RaceAtRest
    /\ CapAtRest
    /\ UnitsAtRest

\* lines 1181-1228: the next row's history is long enough; its indicators and
\* score are computed and the stock is appended to scored_stocks
ScoreCandidate ==
    /\ sel_pc = "scoring"
    /\ cand_idx < pool_size
    /\ \E row \in ScoredRowChoices :
         scored_stocks' = Append(scored_stocks,
                                 [code |-> CodeOf(cand_idx + 1),
                                  change_pct |-> row.change_pct,
                                  score |-> row.score])
    /\ cand_idx' = cand_idx + 1
    /\ UNCHANGED <<pool_size, paired_codes, codes_descending, sel_pc, skipped, buy, watch>>
    /\ UNCHANGED selFrame

AfterFailure_Break(k) == pool_size

\* lines 1196, 1204, 1233: `continue`, the loop goes on with the next row
AfterFailure(k) == k + 1

\* lines 1193-1204, 1230-1233: the next row's history is missing, empty or
\* shorter than 20 bars, or its fetch raises: the row is skipped
SkipCandidate ==
    /\ sel_pc = "scoring"
    /\ cand_idx < pool_size
    /\ skipped' = skipped \cup {cand_idx + 1}
    /\ cand_idx' = AfterFailure(cand_idx)
    /\ UNCHANGED <<pool_size, paired_codes, codes_descending, sel_pc, scored_stocks, buy,
                   watch>>
    /\ UNCHANGED selFrame

\* lines 1237-1355: after the loop, the sort, the buy list, the watch list and
\* the return (empty lists when nothing was scored); the locals are gone
SelectAndReturn ==
    /\ sel_pc = "scoring"
    /\ cand_idx = pool_size
    /\ LET sorted == SortByScore(scored_stocks)
           buy_candidates == BuyCandidates(sorted)
       IN /\ buy' = buy_candidates
          /\ watch' = WatchCandidates(sorted, buy_candidates)
    /\ sel_pc' = "returned"
    /\ scored_stocks' = <<>>
    /\ skipped' = {}
    /\ UNCHANGED <<pool_size, paired_codes, codes_descending, cand_idx>>
    /\ UNCHANGED selFrame

NextSelect ==
    \/ ScoreCandidate
    \/ SkipCandidate
    \/ SelectAndReturn

SpecSelect == InitSelect /\ [][NextSelect]_vars

(***************************************************************************)
(* Properties of the selection.                                            *)
(***************************************************************************)
\* C1: no symbol code is both in the buy list and in the watch list.
C1_BuyWatchDisjoint ==
    \A i \in 1..Len(buy) : \A j \in 1..Len(watch) : buy[i].code # watch[j].code

\* C1 witness: a full buy list, and in the watch list a stock that meets the
\* buy condition too and was left out of the buy list by the cap.
C1_Witness ==
    /\ sel_pc = "returned"
    /\ Len(buy) = MaxRecs
    /\ \E j \in 1..Len(watch) : BuyEligible(watch[j])

\* C2: at most 5 buy recommendations and at most 5 watch recommendations.
C2_AtMostFiveEach == Len(buy) <= 5 /\ Len(watch) <= 5

\* C2 witness: six stocks met the buy condition: five are returned as buy and
\* the sixth, the last in score order, is returned as watch.
C2_Witness ==
    /\ sel_pc = "returned"
    /\ pool_size = 6
    /\ Len(buy) = 5
    /\ Len(watch) = 1
    /\ \A i \in 1..5 : buy[i].score = 450
    /\ BuyEligible(watch[1])
    /\ watch[1].code = 6

\* how often x occurs in the sequence s
Occurrences(x, s) == Cardinality({k \in 1..Len(s) : s[k] = x})

\* list is the first up-to-5, in descending order of score, of the stocks of
\* pool that meet the condition: it has as many entries as meet it, up to 5,
\* each of them a stock of the pool that meets it, the scores do not
\* increase, and no stock that meets it and was left out scores more than
\* one that was taken
FirstFiveOf(pool, list, Meets(_)) ==
    LET meeting == {i \in 1..Len(pool) : Meets(pool[i])}
    IN /\ Len(list) = IF Cardinality(meeting) < 5 THEN Cardinality(meeting) ELSE 5
       /\ \A k \in 1..Len(list) :
             /\ Meets(list[k])
             /\ Occurrences(list[k], list) <= Occurrences(list[k], pool)
       /\ \A k \in 1..(Len(list) - 1) : list[k].score >= list[k + 1].score
       /\ \A i \in meeting :
             Occurrences(pool[i], list) < Occurrences(pool[i], pool)
                 => \A k \in 1..Len(list) : pool[i].score <= list[k].score

StatedBuy(stock) ==
    stock.change_pct \in 5..50 /\ stock.score >= 400

StatedWatch(stock, bought) ==
    /\ \A k \in 1..Len(bought) : bought[k].code # stock.code
    /\ stock.change_pct \in (-20)..30
    /\ stock.score >= 300

C27_TiesByCodeAscending ==
    /\ \A k \in 1..(Len(buy) - 1) :
          \/ buy[k].score > buy[k + 1].score
          \/ buy[k].score = buy[k + 1].score /\ buy[k].code <= buy[k + 1].code
    /\ \A k \in 1..(Len(watch) - 1) :
          \/ watch[k].score > watch[k + 1].score
          \/ watch[k].score = watch[k + 1].score /\ watch[k].code <= watch[k + 1].code

\* the codes of the stocks of a list
CodesIn(s) == {s[k].code : k \in 1..Len(s)}

\* the codes of the rows the loop skipped, where no two rows share a code
SkippedCodes == IF paired_codes THEN {} ELSE {CodeOf(i) : i \in skipped}

\* C29: a row whose history could not be used is skipped: it is not in the
\* scored pool and in neither list, every row that was not skipped is in the
\* scored pool, and the screen returns only after every row was visited.
C29_FailedCandidateSkipped ==
    [][/\ sel_pc' = "scoring" =>
            /\ Len(scored_stocks') + Cardinality(skipped') = cand_idx'
            /\ SkippedCodes' \cap CodesIn(scored_stocks') = {}
       /\ (sel_pc = "scoring" /\ sel_pc' = "returned") =>
            /\ cand_idx = pool_size
            /\ Len(scored_stocks) = pool_size - Cardinality(skipped)
            /\ SkippedCodes \cap (CodesIn(buy') \cup CodesIn(watch')) = {}]_vars

\* the first and the third row were skipped and every other row of a pool of
\* at least four was scored
C29_Witness ==
    /\ sel_pc = "scoring"
    /\ cand_idx = pool_size
    /\ pool_size >= 4
    /\ skipped = {1, 3}
    /\ Len(scored_stocks) = pool_size - 2

(***************************************************************************)
(* SpecScenario: a row with the quote attributes and the indicators of the *)
(* specification's worked example is scored, appended to the stocks scored *)
(* before it and recommended (lines 1199-1226, 1237-1252, 1272-1337).      *)
(***************************************************************************)
ScenarioRows ==
    {Joined([gain_20d |-> 12, ma_bullish |-> TRUE, ma5_above_ma10 |-> above, rsi |-> 62,
             macd_golden_cross |-> FALSE, macd_histogram |-> h],
            [volume_ratio |-> 21, is_20day_high |-> TRUE, change_pct |-> 35],
            [pe |-> 35, market_cap |-> 22625, volatility |-> v]) :
        above \in BOOLEAN, h \in HistogramValues, v \in VolatilityValues}

\* rows scored before it: one that scores 90, one that scores 50
AheadRow ==
    Joined([gain_20d |-> 31, ma_bullish |-> TRUE, ma5_above_ma10 |-> TRUE, rsi |-> 62,
            macd_golden_cross |-> TRUE, macd_histogram |-> 1],
           [volume_ratio |-> 21, is_20day_high |-> TRUE, change_pct |-> 35],
           [pe |-> 35, market_cap |-> 22625, volatility |-> Missing])

BehindRow ==
    Joined([gain_20d |-> Missing, ma_bullish |-> FALSE, ma5_above_ma10 |-> FALSE,
            rsi |-> Missing, macd_golden_cross |-> FALSE, macd_histogram |-> Missing],
           [volume_ratio |-> 21, is_20day_high |-> TRUE, change_pct |-> 35],
           [pe |-> 35, market_cap |-> 22625, volatility |-> Missing])

RivalKinds == {"ahead", "behind", "same"}

RivalRow(kind, row) ==
    CASE kind = "ahead" -> AheadRow
      [] kind = "behind" -> BehindRow
      [] OTHER -> row

\* lines 1215-1226: the dict appended to scored_stocks
StockOf(code, row, score) ==
    [code |-> code,
     change_pct |-> Get(row.change_pct, 0),
     volume_ratio |-> Get(row.volume_ratio, 0),
     pe |-> Get(row.pe, 0),
     market_cap |-> Get(row.market_cap, 0),
     score |-> score,
     indicators |-> [gain_20d |-> row.gain_20d, ma_bullish |-> row.ma_bullish,
                     ma5_above_ma10 |-> row.ma5_above_ma10, rsi |-> row.rsi,
                     macd_golden_cross |-> row.macd_golden_cross,
                     macd_histogram |-> row.macd_histogram,
                     is_20day_high |-> row.is_20day_high,
                     volatility |-> row.volatility]]

\* f"{x:.0f}" of a value held in tenths: to the nearest whole number, a half
\* to the even one
RoundTenths(t) ==
    LET q == t \div 10
        r == t % 10
    IN IF r < 5 THEN q
       ELSE IF r > 5 THEN q + 1
       ELSE IF q % 2 = 0 THEN q ELSE q + 1

\* parts.append(...) when the condition holds
Part(cond, name, value) == IF cond THEN <<[part |-> name, value |-> value]>> ELSE <<>>

\* lines 1272-1321: format_reason, the parts in the order they are joined;
\* a part is named after what it reports: "ma_bullish" is 均线多头排列,
\* "short_trend_up" 短期趋势向上, "is_20day_high" 创20日新高,
\* "macd_golden_cross" MACD金叉, "score" 综合评分 with the score as :.0f
FormatReason(stock) ==
    LET indicators == stock.indicators
        rsi == Get(indicators.rsi, 0)
        gain_20d == Get(indicators.gain_20d, 0)
        mv_yi == IF stock.market_cap > 0 THEN stock.market_cap ELSE 0
    IN Part(TRUE, "today", stock.change_pct)
       \o Part(stock.volume_ratio > 0, "volume_ratio", stock.volume_ratio)
       \o Part(indicators.ma_bullish, "ma_bullish", 0)
       \o Part(~indicators.ma_bullish /\ indicators.ma5_above_ma10, "short_trend_up", 0)
       \o Part(indicators.is_20day_high, "is_20day_high", 0)
       \o Part(indicators.macd_golden_cross, "macd_golden_cross", 0)
       \o Part(50 <= rsi /\ rsi <= 70, "rsi", rsi)
       \o Part(gain_20d > 10, "gain_20d", gain_20d)
       \o Part(stock.pe > 0, "pe", stock.pe)
       \o Part(mv_yi > 0, "market_cap", mv_yi)
       \o Part(TRUE, "score", RoundTenths(stock.score))

\* lines 1325-1337: the entry of buy_recs, its code and its reason
Rec(stock) == [code |-> stock.code, reason |-> FormatReason(stock)]

InitScenario ==
    /\ score_input \in ScenarioRows
    /\ score_args = NoArguments
    /\ score_pc = "row"
    /\ score_result = 0
    /\ score_calls = 0
    /\ score_log = {}
    /\ buy_recs = <<>>
    /\ \E n \in 0..MaxRivals, kind \in RivalKinds :
          /\ pool_size = n + 1
          /\ cand_idx = n
          /\ scored_stocks =
                [k \in 1..n |-> StockOf(k, RivalRow(kind, score_input),
                                        FullScore(Bound(RivalRow(kind, score_input))))]
    /\ paired_codes = FALSE
    /\ codes_descending = FALSE
    /\ skipped = {}
    /\ sel_pc = "scoring"
    /\ buy = <<>>
    /\ watch = <<>>
    /\ RunAtRest /\ ChainAtRest /\ RaceAtRest /\ CapAtRest /\ FilterAtRest
    /\ IndicatorsAtRest /\ ServicesAtRest

\* lines 1215-1228: scored_stocks.append({...})
AppendScored ==
    /\ score_pc = "returned"
    /\ sel_pc = "scoring"
    /\ cand_idx < pool_size
    /\ scored_stocks' = Append(scored_stocks,
                               StockOf(CodeOf(cand_idx + 1), score_input, score_result))
    /\ cand_idx' = cand_idx + 1
    /\ score_pc' = "appended"
    /\ UNCHANGED <<pool_size, paired_codes, codes_descending, sel_pc, skipped, buy, watch>>
    /\ UNCHANGED <<score_input, score_args, score_result, score_calls, score_log, buy_recs>>
    /\ UNCHANGED <<runVars, chainVars, raceVars, capVars, filterVars, indVars, svcVars>>

\* lines 1237-1355: the sort, the two lists, the reasons and the return
ReturnRecommendations ==
    /\ score_pc = "appended"
    /\ sel_pc = "scoring"
    /\ cand_idx = pool_size
    /\ LET sorted == SortByScore(scored_stocks)
           buy_candidates == BuyCandidates(sorted)
       IN /\ buy' = buy_candidates
          /\ watch' = WatchCandidates(sorted, buy_candidates)
          /\ buy_recs' = [k \in 1..Len(buy_candidates) |-> Rec(buy_candidates[k])]
    /\ sel_pc' = "returned"
    /\ score_pc' = "recommended"
    /\ scored_stocks' = <<>>
    /\ UNCHANGED <<pool_size, paired_codes, codes_descending, cand_idx, skipped>>
    /\ UNCHANGED <<score_input, score_args, score_result, score_calls, score_log>>
    /\ UNCHANGED <<runVars, chainVars, raceVars, capVars, filterVars, indVars, svcVars>>

NextScenario ==
    \/ BindArguments
    \/ CalculateFullScore
    \/ AppendScored
    \/ ReturnRecommendations

SpecScenario == InitScenario /\ [][NextScenario]_vars

\* the reason of a recommendation has a part of this name
HasPart(reason, name) == \E k \in 1..Len(reason) : reason[k].part = name

\* the row of the example is the k-th buy recommendation, and its reason
\* names the bullish averages, the 20-day high and the score
ExampleBought(k) ==
    /\ k \in 1..Len(buy)
    /\ buy[k].code = CodeOf(pool_size)
    /\ buy_recs[k].code = CodeOf(pool_size)
    /\ HasPart(buy_recs[k].reason, "ma_bullish")
    /\ HasPart(buy_recs[k].reason, "is_20day_high")
    /\ \E j \in 1..Len(buy_recs[k].reason) :
          /\ buy_recs[k].reason[j].part = "score"
          /\ buy_recs[k].reason[j].value * 10 = score_result

ListChoices == {"empty", "A", "B"}

Response(lists, at) == [lists |-> lists, updated_at |-> at]

\* requests that have arrived so far
Arrived == Len(ep_log) + Cardinality({t \in Threads : ep_pc[t] \notin {"idle", "answered"}})

InitEndpoint ==
    /\ ep_cache = [data |-> NoResponse, timestamp |-> 0, ttl |-> ResponseTtl]
    /\ ep_pc = [t \in Threads |-> "idle"]
    /\ ep_req = [t \in Threads |-> NoRequest]
    /\ ep_log = <<>>
    /\ ep_events = 0
    /\ realtime_cache = [data |-> NoFrame, timestamp |-> 0, ttl |-> CacheTtl]
    /\ clock = StartClock
    /\ ticks = 0
    /\ screens = MaxScreens
    /\ chain_pc = "idle"
    /\ current_time = 0
    /\ df = NoFrame
    /\ attempt = 0
    /\ calls = <<>>
    /\ screen_result = "none"
    /\ screen_failed = FALSE
    /\ converted = {}
    /\ df_columns = {}
    /\ cache_columns = {}
    /\ RunAtRest /\ SelectAtRest /\ RaceAtRest /\ CapAtRest
    /\ FilterAtRest /\ ScoreAtRest /\ IndicatorsAtRest /\ FetchAtRest

\* the request of thread t is answered: with the response (status 200) or
\* with the HTTPException of lines 81-84 (status 500)
Answer(t, status, response) ==
    /\ ep_events' = ep_events + 1
    /\ ep_req' = [ep_req EXCEPT ![t].answered = ep_events + 1,
                                ![t].status = status,
                                ![t].response = response]
    /\ ep_log' = Append(ep_log, ep_req'[t])
    /\ ep_pc' = [ep_pc EXCEPT ![t] = "answered"]

\* line 51: now = time.time(), on a free pool thread
ReqReadClock(t) ==
    /\ ep_pc[t] \in {"idle", "answered"}
    /\ Arrived < MaxRequests
    /\ ep_events' = ep_events + 1
    /\ ep_req' = [ep_req EXCEPT ![t] = [NoRequest EXCEPT !.arrived = ep_events + 1,
                                                         !.now = clock]]
    /\ ep_pc' = [ep_pc EXCEPT ![t] = "is_none"]
    /\ UNCHANGED <<ep_cache, ep_log, realtime_cache, clock, ticks>>
    /\ UNCHANGED epFrame

\* line 54: _cache['data'] is not None
ReqCheckNone(t) ==
    /\ ep_pc[t] = "is_none"
    /\ ep_pc' = [ep_pc EXCEPT ![t] = IF ep_cache.data = NoResponse THEN "screen" ELSE "age"]
    /\ UNCHANGED <<ep_cache, ep_req, ep_log, ep_events, realtime_cache, clock, ticks>>
    /\ UNCHANGED epFrame

\* line 55: now - _cache['timestamp'] < _cache['ttl']
ReqCheckAge(t) ==
    /\ ep_pc[t] = "age"
    /\ ep_pc' = [ep_pc EXCEPT ![t] =
                   IF ep_req[t].now - ep_cache.timestamp < ep_cache.ttl
                   THEN "take" ELSE "screen"]
    /\ UNCHANGED <<ep_cache, ep_req, ep_log, ep_events, realtime_cache, clock, ticks>>
    /\ UNCHANGED epFrame

\* line 57: return _cache['data']
ReqTake(t) ==
    /\ ep_pc[t] = "take"
    /\ Answer(t, 200, ep_cache.data)
    /\ UNCHANGED <<ep_cache, realtime_cache, clock, ticks>>
    /\ UNCHANGED epFrame

\* lines 60-61: pipeline = StockAnalysisPipeline(); raw =
\* pipeline.screen_market_stocks().  The constructor may raise; the screen
\* never does: it reads its snapshot from _realtime_cache when that is fresh
\* (pipeline.py 938-941) and from the providers otherwise, storing what a
\* provider yields, and it returns the empty lists when no provider yields a
\* snapshot (1114-1116) and when anything raises inside it (1357-1359).
ReqScreen(t) ==
    /\ ep_pc[t] = "screen"
    /\ \/ /\ Answer(t, 500, NoResponse)
          /\ UNCHANGED realtime_cache
       \/ /\ CacheFresh(realtime_cache, clock)
          /\ \E l \in ListChoices :
                ep_req' = [ep_req EXCEPT ![t].screened = TRUE,
                                         ![t].response = Response(l, 0)]
          /\ ep_pc' = [ep_pc EXCEPT ![t] = "build"]
          /\ UNCHANGED <<realtime_cache, ep_log, ep_events>>
       \/ /\ ~CacheFresh(realtime_cache, clock)
          /\ \/ /\ realtime_cache' =
                      StoreSnapshot(realtime_cache, Snapshot("em", ep_req[t].arrived), clock)
                /\ \E l \in ListChoices :
                      ep_req' = [ep_req EXCEPT ![t].screened = TRUE,
                                               ![t].contacted = TRUE,
                                               ![t].response = Response(l, 0)]
             \/ /\ ep_req' = [ep_req EXCEPT ![t].screened = TRUE,
                                            ![t].contacted = TRUE,
                                            ![t].response = Response("empty", 0)]
                /\ UNCHANGED realtime_cache
          /\ ep_pc' = [ep_pc EXCEPT ![t] = "build"]
          /\ UNCHANGED <<ep_log, ep_events>>
    /\ UNCHANGED <<ep_cache, clock, ticks>>
    /\ UNCHANGED epFrame

\* lines 63-70: the items and the response are built, updated_at being the
\* time of the build; a row the schema rejects raises, which lines 79-84
\* turn into HTTP 500 without touching _cache
ReqBuild(t) ==
    /\ ep_pc[t] = "build"
    /\ \/ /\ ep_req' = [ep_req EXCEPT ![t].response =
                                         Response(ep_req[t].response.lists, clock)]
          /\ ep_pc' = [ep_pc EXCEPT ![t] = "store_data"]
          /\ UNCHANGED <<ep_log, ep_events>>
       \/ /\ ep_req[t].response.lists # "empty"
          /\ Answer(t, 500, NoResponse)
    /\ UNCHANGED <<ep_cache, realtime_cache, clock, ticks>>
    /\ UNCHANGED epFrame

\* line 73: _cache['data'] = response
ReqStoreData(t) ==
    /\ ep_pc[t] = "store_data"
    /\ ep_cache' = [ep_cache EXCEPT !.data = ep_req[t].response]
    /\ ep_pc' = [ep_pc EXCEPT ![t] = "store_stamp"]
    /\ UNCHANGED <<ep_req, ep_log, ep_events, realtime_cache, clock, ticks>>
    /\ UNCHANGED epFrame

\* line 74: _cache['timestamp'] = now
ReqStoreStamp(t) ==
    /\ ep_pc[t] = "store_stamp"
    /\ ep_cache' = [ep_cache EXCEPT !.timestamp = ep_req[t].now]
    /\ ep_pc' = [ep_pc EXCEPT ![t] = "return"]
    /\ UNCHANGED <<ep_req, ep_log, ep_events, realtime_cache, clock, ticks>>
    /\ UNCHANGED epFrame

\* line 77: return response
ReqReturn(t) ==
    /\ ep_pc[t] = "return"
    /\ Answer(t, 200, ep_req[t].response)
    /\ UNCHANGED <<ep_cache, realtime_cache, clock, ticks>>
    /\ UNCHANGED epFrame

NextEndpoint ==
    \/ Tick
    \/ \E t \in Threads :
          \/ ReqReadClock(t)
          \/ ReqCheckNone(t)
          \/ ReqCheckAge(t)
          \/ ReqTake(t)
          \/ ReqScreen(t)
          \/ ReqBuild(t)
          \/ ReqStoreData(t)
          \/ ReqStoreStamp(t)
          \/ ReqReturn(t)

SpecEndpoint == InitEndpoint /\ [][NextEndpoint]_vars

\* the requests answered so far
Answered == {ep_log[k] : k \in 1..Len(ep_log)}

\* request b arrived after request a and read its clock less than the ttl
\* after a read its own
WithinTtlOf(a, b) == b.arrived > a.arrived /\ b.now - a.now < ResponseTtl

\* C35: within the ttl window the market screen is idempotent: a request
\* made less than 300 s after one that ran the screen and returned its lists
\* returns the same buy and watch lists, and no snapshot provider is
\* contacted for it.
C35_SecondRequestSameLists ==
    \A first, second \in Answered :
        (/\ first.screened /\ first.status = 200
         /\ second.status = 200
         /\ WithinTtlOf(first, second)) =>
            /\ second.response.lists = first.response.lists
            /\ ~second.contacted

\* C36: under any interleaving of concurrent requests at most one screening
\* pass is executed per ttl window: two requests that both ran the screen
\* and cached its response read their clocks at least 300 s apart.
C36_OnePassPerWindow ==
    \A first, second \in Answered :
        (/\ first.arrived < second.arrived
         /\ first.screened /\ first.status = 200
         /\ second.screened /\ second.status = 200) =>
            second.now - first.now >= ResponseTtl

\* C38: the degraded response is cached like any other: after a request
\* whose screen returned empty buy and watch lists, every request arriving
\* within the next 300 s is answered with that same empty response and does
\* not run the screen.
C38_EmptyResponseServedForTtl ==
    \A first, second \in Answered :
        (/\ first.screened /\ first.status = 200
         /\ first.response.lists = "empty"
         /\ second.arrived > first.answered
         /\ second.now - first.now < ResponseTtl) =>
            /\ second.response = first.response
            /\ ~second.screened

(***************************************************************************)
(* fetch_and_save_stock_data (lines 103-147).  The store keeps, for each   *)
(* symbol, the number of rows it holds and whether today's row is among    *)
(* them.  The store and the provider manager are collaborators: a call of  *)
(* theirs returns or raises, and save_daily_data writes in one piece or    *)
(* not at all.                                                             *)
(***************************************************************************)
Codes == 1..MaxCodes

\* what the store can hold of a symbol before a call: nothing, rows up to
\* yesterday, rows up to today
StoredChoices == {[rows |-> 0, today |-> FALSE], [rows |-> 1, today |-> FALSE],
                  [rows |-> 2, today |-> TRUE]}

\* outcomes of db.has_today_data, fetcher_manager.get_daily_data and
\* db.save_daily_data
CheckOutcomes == {"answer", "raise"}
DailyOutcomes == {"frame", "empty", "none", "raise"}
SaveOutcomes == {"saved", "raise"}

\* the tuple returned: (True, None), (False, "获取数据为空"), (False, "获取/保存数据失败: ...")
Success == [success |-> TRUE, message |-> "none"]
EmptyData == [success |-> FALSE, message |-> "empty"]
Failure == [success |-> FALSE, message |-> "failed"]

ResumeFromStore_Never(force_refresh, has_today) == FALSE

\* line 127: if not force_refresh and self.db.has_today_data(code, today)
ResumeFromStore(force_refresh, has_today) == ~force_refresh /\ has_today

\* db.save_daily_data(df, code, source_name): today's row is in the store
SaveDailyData(store, code) ==
    [store EXCEPT ![code] = [rows |-> IF store[code].today THEN store[code].rows
                                      ELSE store[code].rows + 1,
                             today |-> TRUE]]

InitFetch ==
    /\ fs_store \in [Codes -> StoredChoices]
    /\ fs_pc = "idle"
    /\ fs_call = NoCall
    /\ fs_df = "none"
    /\ fs_provider_calls = 0
    /\ fs_writes = 0
    /\ fs_result = NoResult
    /\ fs_calls = 0
    /\ RunAtRest /\ ChainAtRest /\ SelectAtRest /\ RaceAtRest /\ CapAtRest
    /\ FilterAtRest /\ ScoreAtRest /\ IndicatorsAtRest /\ EndpointAtRest

\* the call: fetch_and_save_stock_data(code, force_refresh)
FsCall ==
    /\ fs_pc \in {"idle", "returned"}
    /\ fs_calls < MaxFetchCalls
    /\ \E code \in Codes, force_refresh \in BOOLEAN :
          fs_call' = [code |-> code, force_refresh |-> force_refresh,
                      checked |-> "no", raised |-> "none",
                      before |-> [store |-> fs_store,
                                  provider_calls |-> fs_provider_calls,
                                  writes |-> fs_writes]]
    /\ fs_calls' = fs_calls + 1
    /\ fs_df' = "none"
    /\ fs_result' = NoResult
    /\ fs_pc' = "check"
    /\ UNCHANGED <<fs_store, fs_provider_calls, fs_writes>>
    /\ UNCHANGED fetchFrame

\* lines 123-129: with force_refresh the store is not asked (`and` short
\* circuits); otherwise has_today_data answers or raises
FsCheck ==
    /\ fs_pc = "check"
    /\ \/ /\ fs_call.force_refresh
          /\ fs_pc' = "fetch"
          /\ UNCHANGED <<fs_call, fs_result>>
       \/ /\ ~fs_call.force_refresh
          /\ \E out \in CheckOutcomes :
                IF out = "raise"
                THEN /\ fs_call' = [fs_call EXCEPT !.raised = "check"]
                     /\ fs_result' = Failure
                     /\ fs_pc' = "returned"
                ELSE /\ fs_call' = [fs_call EXCEPT !.checked =
                                      IF fs_store[fs_call.code].today THEN "yes" ELSE "no"]
                     /\ IF ResumeFromStore(FALSE, fs_store[fs_call.code].today)
                        THEN fs_result' = Success /\ fs_pc' = "returned"
                        ELSE fs_result' = fs_result /\ fs_pc' = "fetch"
    /\ UNCHANGED <<fs_store, fs_df, fs_provider_calls, fs_writes, fs_calls>>
    /\ UNCHANGED fetchFrame

\* lines 133-136: df, source_name = self.fetcher_manager.get_daily_data(code,
\* days=30); if df is None or df.empty: return False, "获取数据为空"
FsFetch ==
    /\ fs_pc = "fetch"
    /\ fs_provider_calls' = fs_provider_calls + 1
    /\ \E out \in DailyOutcomes :
          /\ fs_df' = IF out = "raise" THEN fs_df ELSE out
          /\ fs_call' = IF out = "raise" THEN [fs_call EXCEPT !.raised = "fetch"] ELSE fs_call
          /\ fs_result' = CASE out = "raise" -> Failure
                            [] out \in {"empty", "none"} -> EmptyData
                            [] OTHER -> fs_result
          /\ fs_pc' = IF out = "frame" THEN "save" ELSE "returned"
    /\ UNCHANGED <<fs_store, fs_writes, fs_calls>>
    /\ UNCHANGED fetchFrame

\* lines 139-142: saved_count = self.db.save_daily_data(df, code,
\* source_name); return True, None; lines 144-147 when it raises
FsSave ==
    /\ fs_pc = "save"
    /\ \E out \in SaveOutcomes :
          IF out = "saved"
          THEN /\ fs_store' = SaveDailyData(fs_store, fs_call.code)
               /\ fs_writes' = fs_writes + 1
               /\ fs_result' = Success
               /\ UNCHANGED fs_call
          ELSE /\ fs_call' = [fs_call EXCEPT !.raised = "save"]
               /\ fs_result' = Failure
               /\ UNCHANGED <<fs_store, fs_writes>>
    /\ fs_pc' = "returned"
    /\ UNCHANGED <<fs_df, fs_provider_calls, fs_calls>>
    /\ UNCHANGED fetchFrame

NextFetch ==
    \/ FsCall
    \/ FsCheck
    \/ FsFetch
    \/ FsSave

SpecFetch == InitFetch /\ [][NextFetch]_vars

\* the call in progress has so far neither called the provider nor written
NothingFetched == fs_provider_calls = fs_call.before.provider_calls
NothingWritten ==
    /\ fs_writes = fs_call.before.writes
    /\ fs_store = fs_call.before.store

=============================================================================
